---------------------------- MODULE Spec2Model ----------------------------
(***************************************************************************)
(* Model of responsive-class-variants (src/index.ts): the resolver built   *)
(* by rcv(config) and the helpers it calls.                                *)
(*                                                                         *)
(* JavaScript values are tagged records.  A JavaScript string is a         *)
(* sequence of glyphs; a glyph is one symbol of the alphabet below (the    *)
(* space " ", the colon ":", or an indivisible word such as "md").  No     *)
(* glyph is a concatenation of other glyphs, so two sequences are equal    *)
(* exactly when the strings they stand for are equal.  An object is the    *)
(* ordered sequence of its own enumerable entries <<key, value>>, in       *)
(* insertion order, with distinct keys.                                    *)
(***************************************************************************)
EXTENDS Integers, Sequences, FiniteSets, TLC

-----------------------------------------------------------------------------
(* JavaScript values *)

Undef == [t |-> "undefined"]

Str(s) == [t |-> "string", v |-> s]

Bool(b) == [t |-> "boolean", v |-> b]

Arr(xs) == [t |-> "array", v |-> xs]

Obj(es) == [t |-> "object", v |-> es]

\* The completion of a call that throws a TypeError.
Throw == [t |-> "throw"]

SP == " "

\* Boolean(x): JavaScript truthiness.
Truthy(x) ==
  CASE x.t = "undefined" -> FALSE
    [] x.t = "string"    -> x.v # <<>>
    [] x.t = "boolean"   -> x.v
    [] OTHER             -> TRUE

\* String(x) for the values the resolver converts.
String(x) ==
  CASE x.t = "string"    -> x.v
    [] x.t = "boolean"   -> IF x.v THEN <<"true">> ELSE <<"false">>
    [] x.t = "undefined" -> <<"undefined">>
    [] OTHER             -> <<"[object Object]">>

\* The object o as the one allocation the caller holds under the name id
\* and passes wherever it uses that name.
Shared(id, o) == [t |-> o.t, v |-> o.v, id |-> id]

\* Both values are the same allocation.
sameReference(a, b) ==
  /\ "id" \in DOMAIN a
  /\ "id" \in DOMAIN b
  /\ a.id = b.id

\* a === b.  Two object or array literals are distinct allocations; an
\* object is equal to itself only.
StrictEq(a, b) ==
  /\ a.t = b.t
  /\ CASE a.t = "undefined" -> TRUE
       [] a.t = "string"    -> a.v = b.v
       [] a.t = "boolean"   -> a.v = b.v
       [] OTHER             -> sameReference(a, b)

Keys(o) == [i \in 1..Len(o.v) |-> o.v[i][1]]

HasKey(o, k) == o.t = "object" /\ \E i \in 1..Len(o.v) : o.v[i][1] = k

\* o?.[k] with k already a property key: undefined when o is undefined or
\* has no own entry k.
Get(o, k) ==
  IF HasKey(o, k)
  THEN o.v[CHOOSE i \in 1..Len(o.v) : o.v[i][1] = k][2]
  ELSE Undef

\* The rest object of a destructuring: o without the keys in ks.
Omit(o, ks) ==
  LET keep(e) == e[1] \notin ks IN Obj(SelectSeq(o.v, keep))

RECURSIVE Join(_, _)
\* Array.prototype.join for an array of strings.
Join(xs, sep) ==
  IF xs = <<>> THEN <<>>
  ELSE IF Len(xs) = 1 THEN xs[1]
  ELSE xs[1] \o sep \o Join(Tail(xs), sep)

RECURSIVE Split(_)
\* String.prototype.split(" "): the segments between single spaces; the
\* empty string yields one empty segment.
Split(s) ==
  IF \A i \in 1..Len(s) : s[i] # SP THEN <<s>>
  ELSE LET i == CHOOSE j \in 1..Len(s) :
                  s[j] = SP /\ \A m \in 1..(j - 1) : s[m] # SP
       IN <<SubSeq(s, 1, i - 1)>> \o Split(SubSeq(s, i + 1, Len(s)))


-----------------------------------------------------------------------------
(* Helpers of src/index.ts *)

\* Mutant: the array joined by Array.prototype.join's default separator.
normalizeClassValue_comma(value) ==
  CASE value.t = "array"  -> Str(Join([i \in 1..Len(value.v) |-> value.v[i].v], <<",">>))
    [] value.t = "string" -> value
    [] OTHER              -> Undef

normalizeClassValue(value) ==
  CASE value.t = "array"  -> Str(Join([i \in 1..Len(value.v) |-> value.v[i].v], <<SP>>))
    [] value.t = "string" -> value
    [] OTHER              -> Undef

prefixClasses(classes, prefix) ==
  LET parts == Split(classes)
  IN Join([i \in 1..Len(parts) |-> prefix \o <<":">> \o parts[i]], <<SP>>)

\* The strings of an array of string values, joined by sep.
JoinValues(xs, sep) == Join([i \in 1..Len(xs) |-> xs[i].v], sep)

\* Mutant: a slot mapping that does not name the slot gives the payload of
\* its first slot.
payloadOf_anySlot(variantValue, slotName) ==
  IF variantValue.t \in {"string", "array"}
  THEN normalizeClassValue(variantValue)
  ELSE IF variantValue.t = "object" /\ Truthy(slotName)
       THEN IF HasKey(variantValue, slotName.v)
            THEN normalizeClassValue(Get(variantValue, slotName.v))
            ELSE IF variantValue.v = <<>> THEN Undef
            ELSE normalizeClassValue(variantValue.v[1][2])
       ELSE Undef

\* Mutant: in a slot's resolver only slot mappings give a payload.
payloadOf_slotMappedOnly(variantValue, slotName) ==
  IF variantValue.t \in {"string", "array"} /\ ~Truthy(slotName)
  THEN normalizeClassValue(variantValue)
  ELSE IF /\ variantValue.t = "object"
          /\ Truthy(slotName)
          /\ HasKey(variantValue, slotName.v)
       THEN normalizeClassValue(Get(variantValue, slotName.v))
       ELSE Undef

\* Lines 167-183: the payload of a catalog entry variantValue for the slot
\* slotName (Undef in flat mode).
payloadOf(variantValue, slotName) ==
  IF variantValue.t \in {"string", "array"}
  THEN normalizeClassValue(variantValue)
  ELSE IF /\ variantValue.t = "object"
          /\ Truthy(slotName)
          /\ HasKey(variantValue, slotName.v)
       THEN normalizeClassValue(Get(variantValue, slotName.v))
       ELSE Undef

\* What every object literal inherits: Object.prototype, of which the model
\* keeps the constructor, the function named Object.
ObjectPrototype ==
  Obj(<< << <<"constructor">>, [t |-> "function", v |-> "Object"] >> >>)

\* The property read o[k] of lines 164-165: an own property, else an
\* inherited one; a function has its name.
Lookup(o, k) ==
  CASE o.t = "object" ->
         IF HasKey(o, k) THEN Get(o, k) ELSE Get(ObjectPrototype, k)
    [] o.t = "function" ->
         IF k = <<"name">> THEN Str(<<o.v>>) ELSE Undef
    [] OTHER -> Undef

\* Mutant: a token the catalog does not define is emitted as a class itself.
getVariantValue_fallback(variants, key, value, slotName) ==
  IF payloadOf(Lookup(Lookup(variants, key), String(value)), slotName) = Undef
  THEN Str(String(value))
  ELSE payloadOf(Lookup(Lookup(variants, key), String(value)), slotName)

\* value is the request value as passed; used as a property key it is
\* converted to its string form.
getVariantValue(variants, key, value, slotName) ==
  payloadOf(Lookup(Lookup(variants, key), String(value)), slotName)

isArray(x) == x.t = "array"

\* The integer-like keys, in ascending numeric order.
IndexKeys == <<"0", "1", "2">>

isIndexKey(k) == \E i \in 1..Len(IndexKeys) : k = <<IndexKeys[i]>>

\* The pair of o under the i-th integer-like key, if o has that key.
indexEntry(o, i) ==
  IF HasKey(o, <<IndexKeys[i]>>)
  THEN << << <<IndexKeys[i]>>, Get(o, <<IndexKeys[i]>>) >> >>
  ELSE <<>>

RECURSIVE indexEntries(_, _)
indexEntries(o, i) ==
  IF i > Len(IndexKeys) THEN <<>>
  ELSE indexEntry(o, i) \o indexEntries(o, i + 1)

\* The pairs of o under its other keys, in insertion order.
namedEntries(o) ==
  LET named(e) == ~isIndexKey(e[1]) IN SelectSeq(o.v, named)

\* Mutant: Object.entries keeps the order the keys were written in.
entries_asWritten(value) ==
  IF isArray(value)
  THEN [i \in 1..Len(value.v) |-> << <<IndexKeys[i]>>, value.v[i] >>]
  ELSE value.v

\* Object.entries (lines 63, 193, 222): an array's elements under their
\* indices; an object's own pairs, those under integer-like keys first, in
\* ascending numeric order, then the others in insertion order.
entries(value) ==
  IF isArray(value)
  THEN [i \in 1..Len(value.v) |-> << <<IndexKeys[i]>>, value.v[i] >>]
  ELSE indexEntries(value, 1) \o namedEntries(value)

\* Line 205: the reserved key that gets no prefix.
isInitial(breakpoint) == breakpoint = <<"initial">>

\* Lines 202-210: the fragment of one breakpoint from its resolved payload.
breakpointClasses(breakpoint, variantValue) ==
  IF ~Truthy(variantValue) THEN Undef
  ELSE IF isInitial(breakpoint) THEN variantValue
  ELSE Str(prefixClasses(variantValue.v, breakpoint))

\* .filter(Boolean).join(" ") of the mapped fragments; a fragment that
\* threw makes the whole call throw.
joinTruthy(mapped) ==
  IF \E i \in 1..Len(mapped) : mapped[i].t = "throw" THEN Throw
  ELSE Str(JoinValues(SelectSeq(mapped, Truthy), <<SP>>))

\* Object.entries(value) throws a TypeError when value is undefined.
processResponsiveValue(variants, key, value, slotName) ==
  IF value.t # "object" THEN (IF value.t = "undefined" THEN Throw ELSE Str(<<>>))
  ELSE joinTruthy([i \in 1..Len(value.v) |->
         breakpointClasses(entries(value)[i][1],
                           getVariantValue(variants, key, entries(value)[i][2],
                                           slotName))])

\* Mutant: the boolean request value is not converted.
coerceProp_none(propValue) == propValue

\* Lines 224-225: a boolean request value becomes its string token.
coerceProp(propValue) ==
  IF propValue.t = "boolean" THEN Str(String(propValue)) ELSE propValue

\* Mutant: no value is skipped.
isSkipped_never(value) == FALSE

\* Line 228: the values that are skipped.
isSkipped(value) == ~Truthy(value)

\* Lines 227-241: the fragment of one request entry from its coerced value.
propClasses(variants, key, value, slotName) ==
  IF isSkipped(value) THEN Undef
  ELSE IF value.t = "string"
       THEN getVariantValue(variants, key, value, slotName)
  ELSE processResponsiveValue(variants, key, value, slotName)

processVariantProps(props, variants, slotName) ==
  joinTruthy([i \in 1..Len(props.v) |->
     propClasses(variants, entries(props)[i][1],
                 coerceProp(entries(props)[i][2]), slotName)])

\* Mutant: the string form of the expected value is not tried.
matchesPair_strict(propValue, value) == StrictEq(propValue, value)

\* Mutant: a mapping in the request is matched on its initial value.
matchesPair_initial(propValue, value) ==
  \/ StrictEq(propValue, Str(String(value)))
  \/ StrictEq(propValue, value)
  \/ /\ HasKey(propValue, <<"initial">>)
     /\ \/ StrictEq(Get(propValue, <<"initial">>), Str(String(value)))
        \/ StrictEq(Get(propValue, <<"initial">>), value)

\* Lines 254-255: one predicate pair against the request's value.
matchesPair(propValue, value) ==
  \/ StrictEq(propValue, Str(String(value)))
  \/ StrictEq(propValue, value)

\* Mutant: a rule needs at least one pair to match.
matchesCompoundVariant_nonEmpty(compound, props) ==
  /\ Len(compound.v) > 0
  /\ \A i \in 1..Len(compound.v) :
       matchesPair(Get(props, compound.v[i][1]), compound.v[i][2])

\* Mutant: one matching pair is enough.
matchesCompoundVariant_some(compound, props) ==
  \E i \in 1..Len(compound.v) :
    matchesPair(Get(props, compound.v[i][1]), compound.v[i][2])

matchesCompoundVariant(compound, props) ==
  \A i \in 1..Len(compound.v) :
    matchesPair(Get(props, compound.v[i][1]), compound.v[i][2])

NonEmpty(s) == s # <<>>

RECURSIVE toVal(_)
\* clsx's value of one argument: a string is itself, an array is its truthy
\* elements' values joined by one space, an object is its keys with truthy
\* values joined by one space, anything else is empty.
toVal(mix) ==
  CASE mix.t = "string" -> mix.v
    [] mix.t = "array"  ->
         Join(SelectSeq([i \in 1..Len(mix.v) |->
                           IF Truthy(mix.v[i]) THEN toVal(mix.v[i]) ELSE <<>>],
                        NonEmpty), <<SP>>)
    [] mix.t = "object" ->
         LET on(e) == Truthy(e[2])
         IN Join(Keys(Obj(SelectSeq(mix.v, on))), <<SP>>)
    [] OTHER            -> <<>>

\* Mutant: every argument is joined in, empty or not.
clsx_joinAll(args) == Join([i \in 1..Len(args) |-> toVal(args[i])], <<SP>>)

\* clsx(...args): the non-empty values of the truthy arguments, joined by
\* one space.
clsx(args) == toVal(Arr(args))

\* The hook of the test at src/index.test.ts:404-406:
\* classes.split(" ").reverse().join(" ").
reverseTokens(parts) == [i \in 1..Len(parts) |-> parts[Len(parts) + 1 - i]]

reverseHook(classes) == Join(reverseTokens(Split(classes)), <<SP>>)

Hook(name) == [t |-> "function", v |-> name]

\* A hook that passes its result on with one more class, as a hook that
\* hands the classes to a merging library does: classes + " tw".
taggedHook(classes) == classes \o <<SP, "tw">>

\* onComplete(classes)
applyHook(onComplete, classes) ==
  IF onComplete.v = "reverse" THEN reverseHook(classes)
  ELSE IF onComplete.v = "tagged" THEN taggedHook(classes)
  ELSE classes

\* Mutant: the base is handed to clsx last.
flatFragments_baseLast(base, responsiveClasses, compoundClasses, className) ==
  <<responsiveClasses, compoundClasses, className, base>>

flatFragments_classNameEarly(base, responsiveClasses, compoundClasses, className) ==
  <<base, className, responsiveClasses, compoundClasses>>

\* Line 386: the arguments handed to clsx, in order.
flatFragments(base, responsiveClasses, compoundClasses, className) ==
  <<base, responsiveClasses, compoundClasses, className>>

\* Lines 370-383: the payload one rule contributes (Undef: none).
flatRuleClasses(rule, props) ==
  IF matchesCompoundVariant(Omit(rule, {<<"className">>}), props)
  THEN Get(rule, <<"className">>)
  ELSE Undef

flatCompoundClasses_firstOnly(compoundVariants, props) ==
  IF compoundVariants.t = "undefined" THEN Undef
  ELSE LET matching == SelectSeq([i \in 1..Len(compoundVariants.v) |->
                                    flatRuleClasses(compoundVariants.v[i], props)],
                                 Truthy)
       IN Arr(IF matching = <<>> THEN <<>> ELSE <<matching[1]>>)

\* Lines 369-384: the payloads of the matching rules, in declared order.
flatCompoundClasses(compoundVariants, props) ==
  IF compoundVariants.t = "undefined" THEN Undef
  ELSE Arr(SelectSeq([i \in 1..Len(compoundVariants.v) |->
                        flatRuleClasses(compoundVariants.v[i], props)],
                     Truthy))

completed_twice(onComplete, classes) ==
  IF Truthy(onComplete)
  THEN Str(applyHook(onComplete, applyHook(onComplete, classes)))
  ELSE Str(classes)

\* Line 387: the return value for the joined string.
completed(onComplete, classes) ==
  IF Truthy(onComplete) THEN Str(applyHook(onComplete, classes))
  ELSE Str(classes)

\* Line 387: the strings the hook is called with, in order.
hookCallsOf(onComplete, classes) ==
  IF Truthy(onComplete) THEN <<Str(classes)>> ELSE <<>>

\* The locals and the result of a call, once the class lists are computed.
flatLocals(onComplete, rc, cc, cls) ==
  IF rc.t = "throw"
  THEN [responsiveClasses |-> Throw, compoundClasses |-> Undef,
        classes |-> Undef, result |-> Throw, hookCalls |-> <<>>]
  ELSE [responsiveClasses |-> rc, compoundClasses |-> cc,
        classes |-> Str(cls), result |-> completed(onComplete, cls),
        hookCalls |-> hookCallsOf(onComplete, cls)]

\* Lines 367-387 for the destructured request.
flatBody(config, className, props, rc, cc) ==
  flatLocals(config.onComplete, rc, cc,
             clsx(flatFragments(Str(config.base), rc, cc, className)))

\* Line 365: an absent argument defaults to the empty object.
defaulted(arg) == IF arg.t = "undefined" THEN Obj(<<>>) ELSE arg

withoutClassName(request) == Omit(request, {<<"className">>})

\* The resolver returned by rcv(config) in flat mode (lines 363-388), called
\* with arg (Undef when called with no argument): its locals and its result.
flatCall(config, arg) ==
  flatBody(config,
           Get(defaulted(arg), <<"className">>),
           withoutClassName(defaulted(arg)),
           processVariantProps(withoutClassName(defaulted(arg)),
                               config.variants, Undef),
           flatCompoundClasses(config.compoundVariants,
                               withoutClassName(defaulted(arg))))

-----------------------------------------------------------------------------
(* Slots mode: createSlotFunction and the factory of rcv *)

\* typeof x === "object" for the values of the model (null does not occur).
isObjectType(x) == x.t \in {"object", "array"}

\* Lines 274-280: the rule carries slot-specific classes for this slot.
hasSlotClasses(slotClasses, slotName) ==
  /\ Truthy(slotClasses)
  /\ isObjectType(slotClasses)
  /\ Truthy(Get(slotClasses, slotName))

\* Mutant: the string of the mapping's first slot is used for every slot.
slotRulePayload_firstSlot(slotClasses, compoundClassName, slotName) ==
  IF hasSlotClasses(slotClasses, slotName)
  THEN normalizeClassValue(slotClasses.v[1][2])
  ELSE compoundClassName

\* Lines 272-285: what a matching rule returns for the slot.
slotRulePayload(slotClasses, compoundClassName, slotName) ==
  IF hasSlotClasses(slotClasses, slotName)
  THEN normalizeClassValue(Get(slotClasses, slotName))
  ELSE compoundClassName

\* Lines 271-287: the payload one rule contributes to the slot (Undef: none).
slotRuleClasses(rule, props, slotName) ==
  IF matchesCompoundVariant(Omit(rule, {<<"class">>, <<"className">>}), props)
  THEN slotRulePayload(Get(rule, <<"class">>), Get(rule, <<"className">>),
                       slotName)
  ELSE Undef

\* Lines 269-288: the payloads of the matching rules, in declared order.
slotCompoundClasses(compoundVariants, props, slotName) ==
  IF compoundVariants.t = "undefined" THEN Undef
  ELSE Arr(SelectSeq([i \in 1..Len(compoundVariants.v) |->
                        slotRuleClasses(compoundVariants.v[i], props, slotName)],
                     Truthy))

\* Lines 290-295: the arguments handed to clsx, in order.
slotFragments(slotConfig, responsiveClasses, compoundClasses, className) ==
  <<slotConfig, responsiveClasses, compoundClasses, className>>

\* Lines 267-296 for the destructured request.
slotBody(config, slotName, className, rc, cc) ==
  flatLocals(config.onComplete, rc, cc,
             clsx(slotFragments(Get(config.slots, slotName), rc, cc, className)))

\* The resolver createSlotFunction returns for slotName (lines 266-297),
\* called with arg (Undef when called with no argument).
slotCall(config, slotName, arg) ==
  slotBody(config, slotName,
           Get(defaulted(arg), <<"className">>),
           processVariantProps(withoutClassName(defaulted(arg)),
                               config.variants, Str(slotName)),
           slotCompoundClasses(config.compoundVariants,
                               withoutClassName(defaulted(arg)), slotName))

\* A slot's resolver, as a value.
SlotFunction(slotName) == [t |-> "function", v |-> slotName]

\* Mutant: a slot with an empty base gets no resolver.
slotFactory_skipEmpty(config) ==
  LET kept(e) == Truthy(e[2])
      es      == SelectSeq(config.slots.v, kept)
  IN Obj([i \in 1..Len(es) |-> <<es[i][1], SlotFunction(es[i][1])>>])

\* Lines 340-359: the mapping one invocation of the factory returns, one
\* resolver per entry of slots.
slotFactory(config) ==
  Obj([i \in 1..Len(config.slots.v) |->
         <<config.slots.v[i][1], SlotFunction(config.slots.v[i][1])>>])

\* Line 336: "slots" in config.
isSlotsConfig(config) == "slots" \in DOMAIN config

-----------------------------------------------------------------------------
(* createRcv *)

\* Mutant: the config's own hook is tried first.
boundOrOwn_ownFirst(bound, own) == IF Truthy(own) THEN own ELSE bound

\* Lines 455 and 465: bound || config.onComplete.
boundOrOwn(bound, own) == IF Truthy(bound) THEN bound ELSE own

\* Mutant: customRcv puts in the bound hook whether there is one or not.
customRcvConfig_boundOnly(bound, config) ==
  [config EXCEPT !.onComplete = bound]

\* Lines 453-468: the config customRcv hands to rcv.
customRcvConfig(bound, config) ==
  [config EXCEPT !.onComplete = boundOrOwn(bound, config.onComplete)]

-----------------------------------------------------------------------------
(* Inputs: configs and requests *)

\* A whitespace glyph other than the space (a tab or a newline).
TAB == "\t"

MaxProps == 2       \* variant entries of one request

MaxCompound == 2    \* rules of one compoundVariants list

cBg == <<"bg", SP, "tx">>

cGr == Arr(<<Str(<<"gr">>), Str(<<"dk">>)>>)

cMulti == <<"m1", TAB, "m2">>

\* A sequence payload with an empty element.
cGap == Arr(<<Str(<<"g1">>), Str(<<>>), Str(<<"g2">>)>>)

cOn == <<"na", SP, "op">>

cOff == <<"ptr">>

\* The variants catalog: string payloads, an array payload, an empty payload
\* and a boolean-style variant.
Catalog ==
  Obj(<< <<(<<"intent">>),
           Obj(<< <<(<<"primary">>), Str(cBg)>>,
                  <<(<<"secondary">>), cGr>>,
                  <<(<<"multi">>), Str(cMulti)>>,
                  <<(<<"ghost">>), Str(<<>>)>>,
                  <<(<<"gap">>), cGap>> >>)>>,
         <<(<<"disabled">>),
           Obj(<< <<(<<"true">>), Str(cOn)>>,
                  <<(<<"false">>), Str(cOff)>> >>)>> >>)

BreakpointsMap(es) == Obj(es)

IntentMaps ==
  { BreakpointsMap(<< <<(<<"initial">>), Str(<<"primary">>)>>,
                      <<(<<"md">>), Str(<<"secondary">>)>> >>),
    BreakpointsMap(<< <<(<<"md">>), Str(<<"primary">>)>>,
                      <<(<<"initial">>), Str(<<"nope">>)>> >>),
    BreakpointsMap(<< <<(<<"md">>), Str(<<"multi">>)>> >>),
    BreakpointsMap(<< <<(<<"md">>), Str(<<"primary">>)>>,
                      <<(<<"2">>), Str(<<"secondary">>)>> >>),
    BreakpointsMap(<<>>) }

IntentValues ==
  { Undef, Str(<<>>), Str(<<"primary">>), Str(<<"secondary">>),
    Str(<<"multi">>), Str(<<"ghost">>), Str(<<"nope">>) } \cup IntentMaps

DisabledValues ==
  { Undef, Bool(TRUE), Bool(FALSE), Str(<<"true">>), Str(<<"false">>),
    Str(<<"nope">>),
    BreakpointsMap(<< <<(<<"initial">>), Bool(FALSE)>>,
                      <<(<<"md">>), Bool(TRUE)>> >>) }

\* Values given for a variant name the catalog does not define.
OtherValues ==
  { Str(<<"primary">>),
    BreakpointsMap(<< <<(<<"initial">>), Str(<<"primary">>)>>,
                      <<(<<"md">>), Str(<<"secondary">>)>> >>) }

PropEntries ==
  {<< <<"intent">>, v >> : v \in IntentValues}
    \cup {<< <<"disabled">>, v >> : v \in DisabledValues}
    \cup {<< <<"other">>, v >> : v \in OtherValues}

DistinctKeys(es) ==
  \A i, j \in 1..Len(es) : i # j => es[i][1] # es[j][1]

VariantProps ==
  UNION { {es \in [1..n -> PropEntries] : DistinctKeys(es)} : n \in 0..MaxProps }

ClassNames == { Str(<<"cn">>), Str(<<>>) }

\* The request objects: variant entries, then an optional className.
Requests ==
  {Obj(es) : es \in VariantProps}
    \cup {Obj(Append(es, << <<"className">>, c >>)) :
            es \in VariantProps, c \in ClassNames}

CompoundRule(pairs, payload) ==
  Obj(Append(pairs, << <<"className">>, Str(payload) >>))

\* The rules a compoundVariants list is made of, in the order they are
\* declared in.
Rules ==
  << CompoundRule(<< <<(<<"intent">>), Str(<<"primary">>)>>,
                     <<(<<"disabled">>), Bool(TRUE)>> >>, <<"k1">>),
     CompoundRule(<< <<(<<"disabled">>), Bool(FALSE)>> >>, <<"j2">>),
     CompoundRule(<< <<(<<"disabled">>), Str(<<"true">>)>> >>, <<"h3">>),
     CompoundRule(<<>>, <<"g4">>),
     CompoundRule(<< <<(<<"disabled">>), Undef>> >>, <<"f5">>) >>

\* The increasing index sequences of length n over 1..m.
Increasing(n, m) ==
  {ix \in [1..n -> 1..m] : \A i \in 1..(n - 1) : ix[i] < ix[i + 1]}

CompoundLists ==
  {Undef} \cup
  UNION { {Arr([i \in 1..n |-> Rules[ix[i]]]) : ix \in Increasing(n, Len(Rules))} :
          n \in 0..MaxCompound }

\* The base strings: two classes, none, and one class with a space before
\* and after it.
Bases == { <<"rd", SP, "px">>, <<>>, <<SP, "rd", SP>> }

Hooks == { Undef, Hook("reverse") }

\* The flat configs; those with a hook are among GivenConfigs.
FlatConfigs ==
  [base : Bases, variants : {Catalog}, compoundVariants : CompoundLists,
   onComplete : {Undef}]

-----------------------------------------------------------------------------
(* The program *)

VARIABLES
  config,             \* the config given to rcv, captured by the resolver
  pc,                 \* "idle", or "returned" after a call of the resolver
  arg,                \* the argument of the call (Undef: none given)
  responsiveClasses,  \* the call's locals
  compoundClasses,
  classes,            \* the joined string, as handed to the hook
  result,             \* the call's return value (Throw: it threw)
  hookCalls,          \* the strings the hook was called with during the call
  slotFunctions,      \* slots mode: the mapping the factory returned
  slotName,           \* slots mode: the slot whose resolver is called
  created,            \* createRcv: the arguments bound by the constructor
  given               \* createRcv: the config the caller gave customRcv

vars ==
  <<config, pc, arg, responsiveClasses, compoundClasses, classes, result,
    hookCalls, slotFunctions, slotName, created, given>>

\* rcv called directly: nothing of the slots factory or createRcv changes.
flatOnly == UNCHANGED <<slotFunctions, slotName, created, given>>

\* rcv(config) has returned the resolver; nothing has been called yet.
Init ==
  /\ config \in FlatConfigs
  /\ pc = "idle"
  /\ arg = Undef
  /\ responsiveClasses = Undef
  /\ compoundClasses = Undef
  /\ classes = Undef
  /\ result = Undef
  /\ hookCalls = <<>>
  /\ slotFunctions = Undef
  /\ slotName = Undef
  /\ created = Undef
  /\ given = Undef

\* The call's locals and return value become observable.
Returns(r) ==
  /\ responsiveClasses' = r.responsiveClasses
  /\ compoundClasses' = r.compoundClasses
  /\ classes' = r.classes
  /\ result' = r.result
  /\ hookCalls' = r.hookCalls

\* Mutant: the resolver uses up the compound rules it has read.
CallWith_consuming(a) ==
  /\ arg' = a
  /\ Returns(flatCall(config, a))
  /\ pc' = "returned"
  /\ config' = [config EXCEPT !.compoundVariants = Undef]
  /\ flatOnly

\* The flat resolver is called with a.
CallWith(a) ==
  /\ arg' = a
  /\ Returns(flatCall(config, a))
  /\ pc' = "returned"
  /\ UNCHANGED config
  /\ flatOnly

\* One call of the flat resolver.
Call ==
  /\ pc = "idle"
  /\ \E a \in Requests \cup {Undef} : CallWith(a)

\* The caller is done with the result; the call's locals are gone.
Return ==
  /\ pc = "returned"
  /\ pc' = "idle"
  /\ arg' = Undef
  /\ responsiveClasses' = Undef
  /\ compoundClasses' = Undef
  /\ classes' = Undef
  /\ result' = Undef
  /\ hookCalls' = <<>>
  /\ UNCHANGED config
  /\ flatOnly

Next == Call \/ Return

Spec == Init /\ [][Next]_vars

-----------------------------------------------------------------------------
(* Slots mode: inputs *)

\* Two slots configs: string and array bases, an array base with an empty
\* element, an empty base, and different slot names in different orders.
SlotSets ==
  { Obj(<< <<(<<"root">>), Str(<<"rt", SP, "py">>)>>,
           <<(<<"title">>), Arr(<<Str(<<"ft">>), Str(<<"mb">>)>>)>> >>),
    Obj(<< <<(<<"title">>), Str(<<"ft">>)>>,
           <<(<<"root">>), Arr(<<Str(<<"ra">>), Str(<<>>), Str(<<"rb">>)>>)>>,
           <<(<<"body">>), Str(<<>>)>> >>) }

\* The variants catalog of the slots configs: tone has payloads that are not
\* slot mappings, shadow and size have slot mappings.
SlotCatalog ==
  Obj(<< <<(<<"tone">>),
           Obj(<< <<(<<"primary">>), Str(<<"gl", SP, "xx">>)>>,
                  <<(<<"secondary">>), Arr(<<Str(<<"g1">>), Str(<<"g2">>)>>)>>,
                  <<(<<"none">>), Obj(<<>>)>> >>)>>,
         <<(<<"shadow">>),
           Obj(<< <<(<<"md">>), Obj(<< <<(<<"root">>), Str(<<"sh">>)>> >>)>> >>)>>,
         <<(<<"size">>),
           Obj(<< <<(<<"lg">>),
                    Obj(<< <<(<<"title">>), Arr(<<Str(<<"t2">>), Str(<<"t3">>)>>)>>,
                           <<(<<"root">>), Str(<<"r2">>)>> >>)>>,
                  <<(<<"sm">>),
                    Obj(<< <<(<<"title">>), Str(<<"t1">>)>> >>)>> >>)>> >>)

ToneValues ==
  { Str(<<"primary">>), Str(<<"secondary">>), Str(<<"none">>),
    BreakpointsMap(<< <<(<<"initial">>), Str(<<"primary">>)>>,
                      <<(<<"md">>), Str(<<"secondary">>)>> >>) }

ShadowValues ==
  { Str(<<"md">>),
    BreakpointsMap(<< <<(<<"md">>), Str(<<"md">>)>> >>) }

SizeValues ==
  { Str(<<"lg">>), Str(<<"sm">>),
    BreakpointsMap(<< <<(<<"initial">>), Str(<<"sm">>)>>,
                      <<(<<"md">>), Str(<<"lg">>)>> >>) }

SlotPropEntries ==
  {<< <<"tone">>, v >> : v \in ToneValues}
    \cup {<< <<"shadow">>, v >> : v \in ShadowValues}
    \cup {<< <<"size">>, v >> : v \in SizeValues}

SlotVariantProps ==
  UNION { {es \in [1..n -> SlotPropEntries] : DistinctKeys(es)} : n \in 0..MaxProps }

SlotRequests ==
  {Obj(es) : es \in SlotVariantProps}
    \cup {Obj(Append(es, << <<"className">>, Str(<<"cn">>) >>)) :
            es \in SlotVariantProps}

\* A slot-name mapping of strings.
SlotMap(es) == Obj(es)

\* The rules a slots config's compoundVariants list is made of, in the order
\* they are declared in: payloads under class and under className, each a
\* slot-name mapping or a bare string.
SlotRules ==
  << Obj(<< <<(<<"tone">>), Str(<<"primary">>)>>,
            <<(<<"class">>),
              SlotMap(<< <<(<<"root">>), Str(<<"cr">>)>>,
                         <<(<<"title">>), Str(<<"ct">>)>> >>)>> >>),
     Obj(<< <<(<<"size">>), Str(<<"lg">>)>>,
            <<(<<"class">>), SlotMap(<< <<(<<"title">>), Str(<<"ot">>)>> >>)>> >>),
     Obj(<< <<(<<"tone">>), Str(<<"primary">>)>>,
            <<(<<"className">>),
              SlotMap(<< <<(<<"root">>), Str(<<"nr">>)>>,
                         <<(<<"title">>), Str(<<"nt">>)>> >>)>> >>),
     Obj(<< <<(<<"shadow">>), Str(<<"md">>)>>,
            <<(<<"className">>), Str(<<"all">>)>> >>),
     Obj(<< <<(<<"shadow">>), Str(<<"md">>)>>,
            <<(<<"class">>), Str(<<"kls">>)>> >>),
     Obj(<< <<(<<"tone">>), Str(<<"secondary">>)>>,
            <<(<<"class">>), SlotMap(<< <<(<<"root">>), Str(<<"br">>)>>,
                                        <<(<<"body">>), Arr(<<>>)>> >>)>>,
            <<(<<"className">>), Str(<<"bn">>)>> >>) >>

SlotCompoundLists ==
  {Undef} \cup
  UNION { {Arr([i \in 1..n |-> SlotRules[ix[i]]]) :
             ix \in Increasing(n, Len(SlotRules))} : n \in 0..MaxCompound }

SlotsConfigs ==
  [slots : SlotSets, variants : {SlotCatalog},
   compoundVariants : SlotCompoundLists, onComplete : Hooks]

-----------------------------------------------------------------------------
(* Slots mode: the program *)

\* rcv(config) has returned the factory; it has not been invoked yet.
SlotsInit ==
  /\ config \in SlotsConfigs
  /\ pc = "idle"
  /\ arg = Undef
  /\ responsiveClasses = Undef
  /\ compoundClasses = Undef
  /\ classes = Undef
  /\ result = Undef
  /\ hookCalls = <<>>
  /\ slotFunctions = Undef
  /\ slotName = Undef
  /\ created = Undef
  /\ given = Undef

\* One invocation of the factory (lines 340-359).
Invoke ==
  /\ pc = "idle"
  /\ isSlotsConfig(config)
  /\ slotFunctions' = slotFactory(config)
  /\ UNCHANGED <<config, pc, arg, responsiveClasses, compoundClasses, classes,
                 result, hookCalls, slotName, created, given>>

\* The resolver f of the mapping is called with a.
CallSlotWith(f, a) ==
  /\ slotName' = Str(f.v)
  /\ arg' = a
  /\ Returns(slotCall(config, f.v, a))
  /\ pc' = "returned"
  /\ UNCHANGED <<config, slotFunctions, created, given>>

\* One call of one of the resolvers the factory returned.
CallSlot ==
  /\ pc = "idle"
  /\ slotFunctions # Undef
  /\ \E i \in 1..Len(slotFunctions.v), a \in SlotRequests \cup {Undef} :
       CallSlotWith(slotFunctions.v[i][2], a)

ReturnSlot ==
  /\ pc = "returned"
  /\ pc' = "idle"
  /\ arg' = Undef
  /\ responsiveClasses' = Undef
  /\ compoundClasses' = Undef
  /\ classes' = Undef
  /\ result' = Undef
  /\ hookCalls' = <<>>
  /\ slotName' = Undef
  /\ UNCHANGED <<config, slotFunctions, created, given>>

SlotsNext == Invoke \/ CallSlot \/ ReturnSlot

SlotsSpec == SlotsInit /\ [][SlotsNext]_vars

-----------------------------------------------------------------------------
(* createRcv: inputs and program *)

BoundHooks == { Undef, Hook("reverse"), Hook("tagged") }

BreakpointLabels == { Undef, Arr(<<Str(<<"sm">>), Str(<<"md">>)>>) }

\* The arguments of createRcv(_breakpoints, onComplete).
Creations == [breakpoints : BreakpointLabels, onComplete : BoundHooks]

\* A mapping the caller keeps in a constant, for a rule and for requests.
SharedMap ==
  Shared("m", BreakpointsMap(<< <<(<<"initial">>), Str(<<"primary">>)>>,
                                <<(<<"md">>), Str(<<"secondary">>)>> >>))

\* A rule that expects that mapping.
SharedRule == CompoundRule(<< <<(<<"intent">>), SharedMap>> >>, <<"s6">>)

\* The configs given to customRcv, flat and slots, with and without a hook
\* of their own.
GivenConfigs ==
  [base : {<<"rd", SP, "px">>, <<>>}, variants : {Catalog},
   compoundVariants : {Undef, Arr(<<Rules[2]>>), Arr(<<SharedRule>>)},
   onComplete : BoundHooks]
  \cup
  [slots : SlotSets, variants : {SlotCatalog},
   compoundVariants : {Undef, Arr(<<SlotRules[4]>>)}, onComplete : BoundHooks]

\* The extra class entries of a request: className, class, or both in
\* either order.
ExtraEntries ==
  { <<>>,
    << << <<"className">>, Str(<<"cn">>) >> >>,
    << << <<"class">>, Str(<<"kc">>) >> >>,
    << << <<"className">>, Str(<<"cn">>) >>, << <<"class">>, Str(<<"kc">>) >> >>,
    << << <<"class">>, Str(<<"kc">>) >>, << <<"className">>, Str(<<"cn">>) >> >> }

CreatedFlatProps ==
  { <<>>,
    << << <<"intent">>, Str(<<"primary">>) >> >>,
    << << <<"disabled">>, Bool(FALSE) >> >>,
    << << <<"constructor">>, Str(<<"name">>) >> >>,
    << << <<"intent">>, Str(<<"gap">>) >> >>,
    << << <<"intent">>, SharedMap >> >>,
    << << <<"disabled">>, BreakpointsMap(<< <<(<<"initial">>), Bool(FALSE)>>,
                                            <<(<<"md">>), Bool(TRUE)>> >>) >> >>,
    << << <<"intent">>, BreakpointsMap(<< <<(<<"initial">>), Str(<<"nope">>)>>,
                                         <<(<<"xl">>), Str(<<"primary">>)>> >>) >>,
       << <<"disabled">>, Bool(TRUE) >> >>,
    << << <<"intent">>, BreakpointsMap(<< <<(<<"initial">>), Str(<<"primary">>)>>,
                                         <<(<<"md">>), Str(<<"secondary">>)>> >>) >> >> }

CreatedSlotProps ==
  { <<>>,
    << << <<"tone">>, Str(<<"primary">>) >> >>,
    << << <<"shadow">>, Str(<<"md">>) >> >>,
    << << <<"size">>, Str(<<"lg">>) >>, << <<"tone">>, Str(<<"secondary">>) >> >> }

CreatedFlatRequests ==
  {Undef} \cup {Obj(es \o x) : es \in CreatedFlatProps, x \in ExtraEntries}

CreatedSlotRequests ==
  {Undef} \cup {Obj(es \o x) : es \in CreatedSlotProps, x \in ExtraEntries}

\* createRcv(...) has returned customRcv; it has not been called yet.
CreateInit ==
  /\ created \in Creations
  /\ given = Undef
  /\ config = Undef
  /\ pc = "created"
  /\ arg = Undef
  /\ responsiveClasses = Undef
  /\ compoundClasses = Undef
  /\ classes = Undef
  /\ result = Undef
  /\ hookCalls = <<>>
  /\ slotFunctions = Undef
  /\ slotName = Undef

\* customRcv(given): rcv is called with the hook put in (lines 453-468).
Construct ==
  /\ pc = "created"
  /\ \E g \in GivenConfigs :
       /\ given' = g
       /\ config' = customRcvConfig(created.onComplete, g)
  /\ pc' = "idle"
  /\ UNCHANGED <<created, arg, responsiveClasses, compoundClasses, classes,
                 result, hookCalls, slotFunctions, slotName>>

\* One call of the flat resolver customRcv returned.
CallCreated ==
  /\ pc = "idle"
  /\ ~isSlotsConfig(config)
  /\ \E a \in CreatedFlatRequests : CallWith(a)

\* One call of a resolver of the factory customRcv returned.
CallCreatedSlot ==
  /\ pc = "idle"
  /\ slotFunctions # Undef
  /\ \E i \in 1..Len(slotFunctions.v), a \in CreatedSlotRequests :
       CallSlotWith(slotFunctions.v[i][2], a)

ReturnCreated == ~isSlotsConfig(config) /\ Return

ReturnCreatedSlot == isSlotsConfig(config) /\ ReturnSlot

CreateNext ==
  \/ Construct
  \/ CallCreated
  \/ ReturnCreated
  \/ Invoke
  \/ CallCreatedSlot
  \/ ReturnCreatedSlot

CreateSpec == CreateInit /\ [][CreateNext]_vars

-----------------------------------------------------------------------------
(* What the claims are stated with *)

Returned == pc = "returned"

NoHook == config.onComplete = Undef

\* The request of the call, and its variant entries.
Request == defaulted(arg)

Props == withoutClassName(Request).v

ExtraClassName == Get(Request, <<"className">>)

IsPrefix(p, s) == Len(p) <= Len(s) /\ SubSeq(s, 1, Len(p)) = p

IsSuffix(p, s) ==
  Len(p) <= Len(s) /\ SubSeq(s, Len(s) - Len(p) + 1, Len(s)) = p

\* f occurs in s as a fragment: bounded by a space or an end on each side
\* (an empty f is no fragment, and nothing is asked of s).
HasFragment(s, f) ==
  \/ f = <<>>
  \/ \E i \in 0..(Len(s) - Len(f)) :
       /\ SubSeq(s, i + 1, i + Len(f)) = f
       /\ i = 0 \/ s[i] = SP
       /\ i + Len(f) = Len(s) \/ s[i + Len(f) + 1] = SP

RECURSIVE Spaced(_)
\* The strings of xs joined by one space.
Spaced(xs) ==
  IF xs = <<>> THEN <<>>
  ELSE IF Len(xs) = 1 THEN xs[1]
  ELSE xs[1] \o <<SP>> \o Spaced(Tail(xs))

\* The non-empty strings of xs joined by one space.
SpacedNonEmpty(xs) == Spaced(SelectSeq(xs, NonEmpty))

\* The catalog's payload for value token v of variant N, as one string:
\* a string entry as it is, a sequence entry with one space between its
\* strings, nothing when the catalog has no such entry.
CatalogPayload(N, v) ==
  LET variant == Get(config.variants, N)
      entry   == Get(variant, v)
  IN CASE entry.t = "string" -> entry.v
       [] entry.t = "array"  -> Spaced([i \in 1..Len(entry.v) |-> entry.v[i].v])
       [] OTHER              -> <<>>

IsSingularString(x) == x.t = "string" /\ x.v # <<>>

-----------------------------------------------------------------------------
(* C1 *)

\* C1: for every flat config with base B and every request, the joined
\* string handed to the hook has B as its first fragment; with no hook the
\* result starts with B verbatim.
C1_BaseFirst ==
  Returned =>
    /\ classes.t = "string"
    /\ IsPrefix(config.base, classes.v)
    /\ (config.base # <<>> /\ Len(classes.v) > Len(config.base))
         => classes.v[Len(config.base) + 1] = SP
    /\ NoHook => (result.t = "string" /\ IsPrefix(config.base, result.v))

C1_Witness ==
  /\ Returned /\ NoHook
  /\ config.base # <<>>
  /\ Len(Props) = 2
  /\ responsiveClasses.v # <<>>
  /\ Len(result.v) > Len(config.base)

-----------------------------------------------------------------------------
(* C2 *)

\* C2: for a singular string request value v of variant N, a string entry
\* catalog[N][v] is emitted verbatim as one fragment of the output and a
\* sequence entry as its strings joined by single spaces; when that is the
\* only variant entry of the request and N is a variant of the catalog,
\* nothing else of the catalog is emitted.
C2_SingularPayload ==
  Returned =>
    /\ \A i \in 1..Len(Props) :
         IsSingularString(Props[i][2]) =>
           HasFragment(classes.v, CatalogPayload(Props[i][1], Props[i][2].v))
    /\ (/\ Len(Props) = 1
        /\ IsSingularString(Props[1][2])
        /\ HasKey(config.variants, Props[1][1]))
         => responsiveClasses = Str(CatalogPayload(Props[1][1], Props[1][2].v))

C2_Witness ==
  /\ Returned
  /\ Len(Props) = 2
  /\ Props[1] = << <<"disabled">>, Str(<<"true">>) >>
  /\ Props[2] = << <<"intent">>, Str(<<"secondary">>) >>
  /\ responsiveClasses = Str(<<"na", SP, "op", SP, "gr", SP, "dk">>)

-----------------------------------------------------------------------------
(* C3 *)

BoolToken(b) == IF b THEN <<"true">> ELSE <<"false">>

\* Every space-separated class of s with bp and a colon before it.
RECURSIVE WithPrefix(_, _)
WithPrefix(bp, s) ==
  IF s = <<>> THEN <<>>
  ELSE IF s[1] = SP THEN <<SP>> \o WithPrefix(bp, Tail(s))
  ELSE LET n == CHOOSE m \in 1..Len(s) :
                  /\ \A j \in 1..m : s[j] # SP
                  /\ m = Len(s) \/ s[m + 1] = SP
       IN bp \o <<":">> \o SubSeq(s, 1, n) \o WithPrefix(bp, SubSeq(s, n + 1, Len(s)))

\* C3: a boolean request value selects the catalog entry keyed by its
\* string token, "true" or "false"; false is not treated as absent, as a
\* singular value and inside a breakpoint mapping.
C3_BooleanToken ==
  Returned =>
    \A i \in 1..Len(Props) :
      LET N == Props[i][1]
          x == Props[i][2]
      IN /\ x.t = "boolean" =>
              /\ HasFragment(classes.v, CatalogPayload(N, BoolToken(x.v)))
              /\ Len(Props) = 1 =>
                   responsiveClasses = Str(CatalogPayload(N, BoolToken(x.v)))
         /\ x.t = "object" =>
              \A j \in 1..Len(x.v) :
                x.v[j][2].t = "boolean" =>
                  HasFragment(classes.v,
                    IF x.v[j][1] = <<"initial">>
                    THEN CatalogPayload(N, BoolToken(x.v[j][2].v))
                    ELSE WithPrefix(x.v[j][1],
                                    CatalogPayload(N, BoolToken(x.v[j][2].v))))

C3_Witness ==
  /\ Returned
  /\ Len(Props) = 1
  /\ Props[1][1] = <<"disabled">>
  /\ Props[1][2].t = "object"
  /\ responsiveClasses = Str(<<"ptr", SP, "md", ":", "na", SP, "md", ":", "op">>)

C3_WitnessSingular ==
  /\ Returned
  /\ Props = << << <<"disabled">>, Bool(FALSE) >> >>
  /\ responsiveClasses = Str(<<"ptr">>)

-----------------------------------------------------------------------------
(* C4 *)

\* The declared compound rules, their predicates and payloads.
RuleList ==
  IF config.compoundVariants.t = "undefined" THEN <<>>
  ELSE config.compoundVariants.v

Predicate(rule) == Omit(rule, {<<"className">>}).v

Payload(rule) == Get(rule, <<"className">>).v

AllUndefined == \A i \in 1..Len(Props) : Props[i][2] = Undef

IsFalsyValue(x) == x = Undef \/ x = Str(<<>>)

ExpectsOnlyUndefined(rule) ==
  \A k \in 1..Len(Predicate(rule)) : Predicate(rule)[k][2] = Undef

\* C4 as stated: a request in which every variant key is undefined and no
\* extra class is given returns exactly the base string.
C4_Original ==
  (Returned /\ NoHook /\ Len(Props) >= 1 /\ AllUndefined
     /\ ExtraClassName = Undef)
    => result = Str(config.base)

\* C4, amended: an absent, undefined or empty request value contributes no
\* variant fragment and raises no error; a request in which every variant
\* key is undefined and no extra class is given yields the base string
\* followed by the payloads of the compound rules that match it (those whose
\* predicate is empty or expects only undefined), so exactly the base string
\* when there is no such rule.
C4_FalsyNotApplied ==
  Returned =>
    /\ result.t = "string"
    /\ (\A i \in 1..Len(Props) : IsFalsyValue(Props[i][2]))
         => responsiveClasses = Str(<<>>)
    /\ (AllUndefined /\ ExtraClassName = Undef) =>
         /\ classes.v =
              SpacedNonEmpty(<<config.base>> \o
                [k \in 1..Len(SelectSeq(RuleList, ExpectsOnlyUndefined)) |->
                   Payload(SelectSeq(RuleList, ExpectsOnlyUndefined)[k])])
         /\ (\A k \in 1..Len(RuleList) : ~ExpectsOnlyUndefined(RuleList[k]))
              => classes.v = config.base
         /\ NoHook => result = classes

C4_Witness ==
  /\ Returned /\ NoHook
  /\ Len(Props) = 2 /\ AllUndefined
  /\ ExtraClassName = Undef
  /\ Len(RuleList) = 2
  /\ \A k \in 1..2 : ~ExpectsOnlyUndefined(RuleList[k])
  /\ result = Str(<<"rd", SP, "px">>)

-----------------------------------------------------------------------------
(* C5 *)

\* x is a value token, given for variant N, that the catalog does not
\* define for N.
IsUnknownToken(N, x) ==
  /\ HasKey(config.variants, N)
  /\ x.t = "boolean" \/ IsSingularString(x)
  /\ ~HasKey(Get(config.variants, N), IF x.t = "boolean" THEN BoolToken(x.v) ELSE x.v)

\* The request value x of variant N without the breakpoints that carry an
\* unknown token.
KnownBreakpoints(N, x) ==
  LET known(e) == ~IsUnknownToken(N, e[2]) IN Obj(SelectSeq(x.v, known))

\* The request without its unknown tokens.
WithoutUnknown(request) ==
  LET kept(e) == ~IsUnknownToken(e[1], e[2])
      es      == SelectSeq(request.v, kept)
  IN Obj([i \in 1..Len(es) |->
            IF es[i][2].t = "object"
            THEN <<es[i][1], KnownBreakpoints(es[i][1], es[i][2])>>
            ELSE es[i]])

HasUnknown ==
  \E i \in 1..Len(Props) :
    \/ IsUnknownToken(Props[i][1], Props[i][2])
    \/ /\ Props[i][2].t = "object"
       /\ \E j \in 1..Len(Props[i][2].v) :
            IsUnknownToken(Props[i][1], Props[i][2].v[j][2])

\* C5 as stated: a token the catalog does not define contributes nothing
\* and raises no error, and the whole output is the one of the request
\* without that token.
C5_Original ==
  Returned =>
    /\ result.t = "string"
    /\ classes = flatCall(config, WithoutUnknown(Request)).classes

\* C5, amended: a token the catalog does not define for the variant
\* (singular, or at any breakpoint of a mapping) contributes no fragment and
\* raises no error; the variant fragments of the output are those of the
\* request without that token (the compound rules are decided on the
\* request as given, token included, so a rule that expects undefined for
\* the variant and would match without the key does not match).
C5_UnknownToken ==
  Returned =>
    /\ result.t = "string"
    /\ responsiveClasses =
         processVariantProps(withoutClassName(WithoutUnknown(Request)),
                             config.variants, Undef)
    /\ (\A i \in 1..Len(Props) : IsUnknownToken(Props[i][1], Props[i][2]))
         => responsiveClasses = Str(<<>>)

C5_Witness ==
  /\ Returned
  /\ Len(Props) = 2
  /\ Props[1] = << <<"disabled">>, Str(<<"nope">>) >>
  /\ Props[2][1] = <<"intent">>
  /\ Props[2][2].t = "object"
  /\ HasUnknown
  /\ responsiveClasses = Str(<<"md", ":", "bg", SP, "md", ":", "tx">>)

-----------------------------------------------------------------------------
(* C6 *)

IsWhitespace(g) == g = SP \/ g = TAB

RECURSIVE Tokens(_)
\* The whitespace-separated class tokens of s, in order.
Tokens(s) ==
  IF s = <<>> THEN <<>>
  ELSE IF IsWhitespace(s[1]) THEN Tokens(Tail(s))
  ELSE LET n == CHOOSE m \in 1..Len(s) :
                  /\ \A j \in 1..m : ~IsWhitespace(s[j])
                  /\ m = Len(s) \/ IsWhitespace(s[m + 1])
       IN <<SubSeq(s, 1, n)>> \o Tokens(SubSeq(s, n + 1, Len(s)))

RECURSIVE Flatten(_)
Flatten(xss) == IF xss = <<>> THEN <<>> ELSE xss[1] \o Flatten(Tail(xss))

\* The tokens one key of a breakpoint mapping is to contribute for the
\* payload resolved for its value.
BreakpointTokens(bp, payload) ==
  IF bp = <<"initial">> THEN Tokens(payload)
  ELSE [k \in 1..Len(Tokens(payload)) |-> bp \o <<":">> \o Tokens(payload)[k]]

\* The value token of a request value inside a mapping.
TokenOf(x) ==
  CASE x.t = "boolean" -> BoolToken(x.v)
    [] x.t = "string"  -> x.v
    [] OTHER           -> <<"undefined">>

MappingTokens(N, m) ==
  Flatten([j \in 1..Len(m.v) |->
             BreakpointTokens(m.v[j][1], CatalogPayload(N, TokenOf(m.v[j][2])))])

IsMappingCall == Returned /\ Len(Props) = 1 /\ Props[1][2].t = "object"

\* The same tokens, as many times each, in whatever order.
SameTokens(a, b) ==
  /\ Len(a) = Len(b)
  /\ \A x \in {a[i] : i \in 1..Len(a)} \cup {b[i] : i \in 1..Len(b)} :
       Cardinality({i \in 1..Len(a) : a[i] = x})
         = Cardinality({i \in 1..Len(b) : b[i] = x})

\* C6: for a breakpoint-mapping request value of variant N each key
\* contributes independently: the payload of the initial key unprefixed,
\* and for every other key bp each whitespace-separated class token c of
\* its payload as exactly the token bp:c; nothing else is emitted.
C6_Original ==
  IsMappingCall =>
    SameTokens(Tokens(responsiveClasses.v),
               MappingTokens(Props[1][1], Props[1][2]))

HasTab(s) == \E i \in 1..Len(s) : s[i] = TAB

\* C6 for the payloads whose classes are separated by single spaces only.
C6_SpaceSeparated ==
  (IsMappingCall
     /\ \A j \in 1..Len(Props[1][2].v) :
          ~HasTab(CatalogPayload(Props[1][1], TokenOf(Props[1][2].v[j][2]))))
    => SameTokens(Tokens(responsiveClasses.v),
                  MappingTokens(Props[1][1], Props[1][2]))

C6_Witness ==
  /\ IsMappingCall
  /\ Len(Props[1][2].v) = 2
  /\ Tokens(responsiveClasses.v) =
       << <<"bg">>, <<"tx">>, <<"md", ":", "gr">>, <<"md", ":", "dk">> >>

-----------------------------------------------------------------------------
(* C7, C8 *)

\* The request's value for variant N (Undef: absent or undefined).
ValueOf(N) == Get(Obj(Props), N)

Carries(N) == ValueOf(N) # Undef

\* Two primitive values are the same value of the same type.
SameValue(a, b) ==
  /\ a.t = b.t
  /\ a.t \in {"undefined", "string", "boolean"}
  /\ a.t = "undefined" \/ a.v = b.v

\* The string form of a primitive value.
StringForm(x) ==
  CASE x.t = "boolean"   -> BoolToken(x.v)
    [] x.t = "string"    -> x.v
    [] OTHER             -> <<"undefined">>

\* The request value r equals the expected value e or is its string form.
ValueMatches(e, r) ==
  SameValue(r, e) \/ (r.t = "string" /\ r.v = StringForm(e))

PredicateMatches(rule) ==
  \A k \in 1..Len(Predicate(rule)) :
    ValueMatches(Predicate(rule)[k][2], ValueOf(Predicate(rule)[k][1]))

\* The rule's payload is among the compound payloads of the call.
Emitted(rule) ==
  /\ compoundClasses.t = "array"
  /\ \E j \in 1..Len(compoundClasses.v) : compoundClasses.v[j] = Str(Payload(rule))

\* C7 as stated: a rule's payload is emitted iff every pair of its
\* predicate matches the request's value; a rule that names a variant the
\* request does not carry does not match.
C7_Original ==
  Returned =>
    \A i \in 1..Len(RuleList) :
      /\ Emitted(RuleList[i]) <=> PredicateMatches(RuleList[i])
      /\ (\E k \in 1..Len(Predicate(RuleList[i])) :
            ~Carries(Predicate(RuleList[i])[k][1]))
           => ~Emitted(RuleList[i])

\* C7, amended: a rule's payload is emitted iff every pair of its predicate
\* matches the request's value for that variant; a rule that names a
\* variant the request does not carry does not match, unless undefined is
\* the value the rule expects for that variant; no error is raised.
C7_CompoundMatch ==
  Returned =>
    /\ result.t = "string"
    /\ \A i \in 1..Len(RuleList) :
         /\ Emitted(RuleList[i]) <=> PredicateMatches(RuleList[i])
         /\ (\E k \in 1..Len(Predicate(RuleList[i])) :
               /\ ~Carries(Predicate(RuleList[i])[k][1])
               /\ Predicate(RuleList[i])[k][2] # Undef)
              => ~Emitted(RuleList[i])

C7_Witness ==
  /\ Returned
  /\ Len(RuleList) = 2
  /\ Len(Predicate(RuleList[1])) = 2
  /\ Emitted(RuleList[1])
  /\ ~Emitted(RuleList[2])
  /\ Len(Predicate(RuleList[2])) = 1
  /\ Predicate(RuleList[2])[1][2] # Undef
  /\ Carries(<<"disabled">>)

C7_WitnessAbsent ==
  /\ Returned
  /\ Len(RuleList) = 2
  /\ Len(Predicate(RuleList[1])) = 2
  /\ ~Carries(<<"disabled">>) /\ Carries(<<"intent">>)
  /\ ~Emitted(RuleList[1])
  /\ Emitted(RuleList[2])

\* Two-way equality: r equals e, r is the string form of e, or e is the
\* string form of r.
TwoWayMatches(e, r) ==
  \/ ValueMatches(e, r)
  \/ r.t \in {"string", "boolean"} /\ e.t = "string" /\ e.v = StringForm(r)

\* C8 as stated: compound-rule equality is two-way, the boolean and its
\* string token being interchangeable whichever side carries the boolean.
C8_Original ==
  Returned =>
    \A i \in 1..Len(RuleList) :
      (\A k \in 1..Len(Predicate(RuleList[i])) :
         TwoWayMatches(Predicate(RuleList[i])[k][2],
                       ValueOf(Predicate(RuleList[i])[k][1])))
        => Emitted(RuleList[i])

\* C8, amended: an expected value e matches a request value r when r equals
\* e or when r is the string form of e: an expected boolean is matched by
\* the boolean and by its token, an expected token "true" or "false" only
\* by that token and not by the boolean.
C8_OneWayEquality ==
  Returned =>
    \A i \in 1..Len(RuleList) :
      LET P == Predicate(RuleList[i]) IN
      /\ (\A k \in 1..Len(P) :
            \/ SameValue(ValueOf(P[k][1]), P[k][2])
            \/ (ValueOf(P[k][1]).t = "string"
                  /\ ValueOf(P[k][1]).v = StringForm(P[k][2])))
           => Emitted(RuleList[i])
      /\ (\E k \in 1..Len(P) :
            P[k][2].t = "string" /\ ValueOf(P[k][1]).t = "boolean")
           => ~Emitted(RuleList[i])
      /\ (\E k \in 1..Len(P) :
            /\ P[k][2].t = "boolean"
            /\ ValueOf(P[k][1]).t \in {"string", "boolean"}
            /\ StringForm(ValueOf(P[k][1])) # BoolToken(P[k][2].v))
           => ~Emitted(RuleList[i])

C8_Witness ==
  /\ Returned
  /\ Len(RuleList) = 2
  /\ Predicate(RuleList[1]) = << << <<"disabled">>, Bool(FALSE) >> >>
  /\ Predicate(RuleList[2]) = << << <<"disabled">>, Str(<<"true">>) >> >>
  /\ ValueOf(<<"disabled">>) = Str(<<"false">>)
  /\ Emitted(RuleList[1])
  /\ ~Emitted(RuleList[2])

C8_WitnessBoolean ==
  /\ Returned
  /\ Len(RuleList) = 1
  /\ Predicate(RuleList[1]) = << << <<"disabled">>, Str(<<"true">>) >> >>
  /\ ValueOf(<<"disabled">>) = Bool(TRUE)
  /\ ~Emitted(RuleList[1])

-----------------------------------------------------------------------------
(* C9 *)

\* The payloads the rule contributes to a list that holds it alone.
Alone(rule) == flatCompoundClasses(Arr(<<rule>>), Obj(Props)).v

\* C9: compound rules are independent: the compound payloads of a call are
\* those each rule of the list contributes on its own for the request, in
\* the list's declared order; a rule's payload neither appears because of
\* nor is suppressed by the matching of another rule, and every payload is
\* a fragment of the output.
C9_Independent ==
  (Returned /\ config.compoundVariants # Undef) =>
    /\ compoundClasses.t = "array"
    /\ compoundClasses.v = Flatten([i \in 1..Len(RuleList) |-> Alone(RuleList[i])])
    /\ \A j \in 1..Len(compoundClasses.v) :
         HasFragment(classes.v, compoundClasses.v[j].v)
    /\ IsSuffix(SpacedNonEmpty([j \in 1..Len(compoundClasses.v) |->
                                  compoundClasses.v[j].v]
                               \o (IF ExtraClassName.t = "string"
                                   THEN <<ExtraClassName.v>> ELSE <<>>)),
                classes.v)

C9_Witness ==
  /\ Returned
  /\ Len(RuleList) = 2
  /\ Len(Props) > 0
  /\ compoundClasses.t = "array"
  /\ Len(compoundClasses.v) = 2
  /\ Alone(RuleList[1]) # <<>>
  /\ Alone(RuleList[2]) # <<>>

-----------------------------------------------------------------------------
(* C10 *)

\* C10: a non-empty extra className of the request is the last fragment of
\* the joined string, after the base, the variant fragments and the
\* compound payloads; when no variant and no compound rule applies the
\* joined string is exactly base, one space, className (the className alone
\* on an empty base); with no hook the joined string is the result.
C10_ClassNameLast ==
  (Returned /\ ExtraClassName.t = "string" /\ ExtraClassName.v # <<>>) =>
    /\ classes.t = "string"
    /\ IsSuffix(ExtraClassName.v, classes.v)
    /\ Len(classes.v) > Len(ExtraClassName.v)
         => classes.v[Len(classes.v) - Len(ExtraClassName.v)] = SP
    /\ (responsiveClasses = Str(<<>>)
          /\ (compoundClasses.t = "array" => compoundClasses.v = <<>>))
         => classes.v = SpacedNonEmpty(<<config.base, ExtraClassName.v>>)
    /\ NoHook => result = classes

C10_Witness ==
  /\ Returned /\ NoHook
  /\ config.base # <<>>
  /\ ExtraClassName = Str(<<"cn">>)
  /\ responsiveClasses.v # <<>>
  /\ compoundClasses.t = "array" /\ compoundClasses.v # <<>>
  /\ result.v = Spaced(<<config.base, responsiveClasses.v,
                         compoundClasses.v[1].v, <<"cn">> >>)

C10_WitnessBare ==
  /\ Returned /\ NoHook
  /\ Props = <<>>
  /\ result = Str(<<"rd", SP, "px", SP, "cn">>)

-----------------------------------------------------------------------------
(* C11 *)

\* The request's extra class entry, and its entries that are neither
\* className nor class.
ExtraClass == Get(Request, <<"class">>)

VariantEntries == Omit(Request, {<<"className">>, <<"class">>}).v

\* The strings of a class value that is a sequence of strings.
Strings(x) == [i \in 1..Len(x.v) |-> x.v[i].v]

\* The slot whose resolver was called, and the base it was configured with.
SlotBase == Get(config.slots, slotName.v)

\* The base of the resolver that was called, as one string: the flat base,
\* or the slot's base, a sequence base being its non-empty strings with one
\* space between them.
BaseString ==
  IF ~isSlotsConfig(config) THEN config.base
  ELSE IF SlotBase.t = "string" THEN SlotBase.v
  ELSE SpacedNonEmpty(Strings(SlotBase))

\* C11: a request {class: C} on base B yields exactly "B C", and a request
\* with both className and class yields the base followed by the className
\* string and then the class string, in flat mode and in every slot
\* resolver.
C11_Original ==
  (Returned /\ VariantEntries = <<>> /\ ExtraClass.t = "string") =>
    classes.v =
      SpacedNonEmpty(<<BaseString>>
                     \o (IF ExtraClassName.t = "string"
                         THEN <<ExtraClassName.v>> ELSE <<>>)
                     \o <<ExtraClass.v>>)

-----------------------------------------------------------------------------
(* C12 *)

\* s without its extraneous whitespace: its class tokens with one space
\* between them.
Trimmed(s) == Spaced(Tokens(s))

\* The call carries no variant entry and no extra class.
IsBareCall == Returned /\ (arg = Undef \/ arg = Obj(<<>>))

NoCompoundPayload ==
  compoundClasses.t = "array" => compoundClasses.v = <<>>

\* C12 as stated: for every base B and catalog, the resolver called with an
\* empty request or with no argument returns B trimmed of extraneous
\* whitespace.
C12_Original ==
  (IsBareCall /\ NoHook /\ RuleList = <<>>) =>
    result = Str(Trimmed(config.base))

\* C12, amended: for every base B and catalog, the resolver called with an
\* empty request or with no argument returns exactly B as it was given,
\* whitespace included, when no compound rule matches such a request (and B
\* followed by the matching rules' payloads otherwise); nothing is trimmed
\* and no space is added.
C12_Baseline ==
  IsBareCall =>
    /\ responsiveClasses = Str(<<>>)
    /\ NoCompoundPayload => classes = Str(config.base)
    /\ classes.v = SpacedNonEmpty(<<config.base>> \o
                     [k \in 1..Len(SelectSeq(RuleList, ExpectsOnlyUndefined)) |->
                        Payload(SelectSeq(RuleList, ExpectsOnlyUndefined)[k])])
    /\ NoHook => result = classes

C12_Witness ==
  /\ IsBareCall /\ NoHook
  /\ arg = Undef
  /\ RuleList # <<>> /\ NoCompoundPayload
  /\ config.base = <<SP, "rd", SP>>
  /\ result = Str(<<SP, "rd", SP>>)

-----------------------------------------------------------------------------
(* C13 *)

\* The hook the resolver was built with.
EffectiveHook == config.onComplete

\* The fragments of the call, in the order they are assembled in: the base,
\* the variant fragment, the compound payloads and the extra className.
Fragments ==
  <<BaseString, responsiveClasses.v>>
    \o (IF compoundClasses.t = "array" THEN Strings(compoundClasses) ELSE <<>>)
    \o (IF ExtraClassName.t = "string" THEN <<ExtraClassName.v>> ELSE <<>>)

\* C13: a configured hook is called exactly once per resolver call, with
\* the fully joined class string (all non-empty fragments with one space
\* between them), and what it returns is the call's result; with no hook
\* nothing is called and the joined string is the result.
C13_HookOnce ==
  Returned =>
    /\ classes = Str(SpacedNonEmpty(Fragments))
    /\ Truthy(EffectiveHook) =>
         /\ hookCalls = <<classes>>
         /\ result = Str(applyHook(EffectiveHook, classes.v))
    /\ ~Truthy(EffectiveHook) =>
         /\ hookCalls = <<>>
         /\ result = classes

C13_Witness ==
  /\ Returned
  /\ ~isSlotsConfig(config)
  /\ EffectiveHook = Hook("reverse")
  /\ ExtraClassName = Str(<<"cn">>)
  /\ responsiveClasses.v # <<>>
  /\ hookCalls = <<classes>>
  /\ result = Str(<<"cn", SP, "tx", SP, "bg", SP, "px", SP, "rd">>)

C13_WitnessSlot ==
  /\ Returned
  /\ isSlotsConfig(config)
  /\ EffectiveHook = Hook("tagged")
  /\ Len(Fragments) = 4
  /\ \A i \in 1..4 : Fragments[i] # <<>>
  /\ hookCalls = <<classes>>
  /\ result.v = classes.v \o <<SP, "tw">>

-----------------------------------------------------------------------------
(* C14 *)

\* The hook H bound by createRcv and the hook h of the config given to the
\* constructor.
BoundHook == created.onComplete

OwnHook == given.onComplete

\* The call applied hook f, once, to the joined string.
Applied(f) ==
  /\ hookCalls = <<classes>>
  /\ result = Str(applyHook(f, classes.v))

\* C14 as stated: when the config carries its own hook h, h is the hook
\* applied to every call; the bound hook H is applied only when the config
\* supplies none.
C14_Original ==
  Returned =>
    /\ Truthy(OwnHook) => Applied(OwnHook)
    /\ (~Truthy(OwnHook) /\ Truthy(BoundHook)) => Applied(BoundHook)

\* C14, amended: for a constructor obtained from createRcv(labels, H) and a
\* config that carries its own hook h, the hook applied to every call of
\* the resulting resolvers is H whenever H was given: the bound hook
\* overrides the config's own, and h is applied only when createRcv was
\* given no hook; with neither, no hook is applied.
C14_BoundFirst ==
  Returned =>
    /\ Truthy(BoundHook) => Applied(BoundHook)
    /\ (~Truthy(BoundHook) /\ Truthy(OwnHook)) => Applied(OwnHook)
    /\ (~Truthy(BoundHook) /\ ~Truthy(OwnHook)) =>
         (hookCalls = <<>> /\ result = classes)

C14_Witness ==
  /\ Returned
  /\ BoundHook = Hook("reverse")
  /\ OwnHook = Hook("tagged")
  /\ isSlotsConfig(config)
  /\ Len(Tokens(classes.v)) >= 2
  /\ result = Str(reverseHook(classes.v))
  /\ result # Str(taggedHook(classes.v))

C14_WitnessOwn ==
  /\ Returned
  /\ BoundHook = Undef
  /\ OwnHook = Hook("tagged")
  /\ ~isSlotsConfig(config)
  /\ result = Str(taggedHook(classes.v))

-----------------------------------------------------------------------------
(* C15 *)

KeySet(o) == {o.v[i][1] : i \in 1..Len(o.v)}

\* The mapping the factory returned has exactly the configured slot names
\* as keys, each with the resolver of that slot.
HasAllSlots ==
  /\ slotFunctions.t = "object"
  /\ KeySet(slotFunctions) = KeySet(config.slots)
  /\ Len(slotFunctions.v) = Len(config.slots.v)
  /\ \A i \in 1..Len(slotFunctions.v) :
       slotFunctions.v[i][2] = SlotFunction(slotFunctions.v[i][1])

-----------------------------------------------------------------------------
(* C16 *)

\* The catalog's entry for value token v of variant N.
CatalogEntry(N, v) == Get(Get(config.variants, N), v)

\* A class value as one string.
ClassString(x) ==
  CASE x.t = "string" -> x.v
    [] x.t = "array"  -> Spaced(Strings(x))
    [] OTHER          -> <<>>

\* Entry e of the request has a singular value whose catalog entry is a
\* mapping from slot name to payload.
IsSlotMapped(e) ==
  /\ e[2].t = "string"
  /\ CatalogEntry(e[1], e[2].v).t = "object"

\* ... and the mapping does not name the slot that was called.
IsOtherSlots(e) ==
  IsSlotMapped(e) /\ ~HasKey(CatalogEntry(e[1], e[2].v), slotName.v)

\* The request without entry i of its variant entries.
RequestWithout(i) ==
  LET other(e) == e[1] # Props[i][1] IN Obj(SelectSeq(Request.v, other))

\* C16 as stated: a slot that the mapping of a requested variant value does
\* not name emits nothing for it: its output is the one of the same request
\* without that variant.
C16_Original ==
  Returned =>
    \A i \in 1..Len(Props) :
      IsOtherSlots(Props[i]) =>
        classes = slotCall(config, slotName.v, RequestWithout(i)).classes

\* C16, amended: when the catalog entry for a variant value is a mapping
\* from slot name to payload, only the resolvers of the slots named in it
\* emit a fragment for that value, their own payload; every other slot's
\* resolver emits no variant fragment for it, so its variant fragments are
\* those of the request without that variant (a compound rule that names
\* the variant still applies to every slot).
C16_SlotIsolation ==
  Returned =>
    /\ result.t = "string"
    /\ (Len(Props) = 1 /\ IsSlotMapped(Props[1])) =>
         responsiveClasses =
           Str(ClassString(Get(CatalogEntry(Props[1][1], Props[1][2].v),
                               slotName.v)))
    /\ \A i \in 1..Len(Props) :
         IsOtherSlots(Props[i]) =>
           responsiveClasses =
             slotCall(config, slotName.v, RequestWithout(i)).responsiveClasses

C16_Witness ==
  /\ Returned /\ NoHook
  /\ slotName = Str(<<"title">>)
  /\ Len(Props) = 2
  /\ Props[1] = << <<"shadow">>, Str(<<"md">>) >>
  /\ Props[2] = << <<"size">>, Str(<<"lg">>) >>
  /\ responsiveClasses = Str(<<"t2", SP, "t3">>)
  /\ compoundClasses.t = "array" /\ compoundClasses.v # <<>>

C16_WitnessNamed ==
  /\ Returned
  /\ slotName = Str(<<"root">>)
  /\ Props = << << <<"shadow">>, Str(<<"md">>) >> >>
  /\ responsiveClasses = Str(<<"sh">>)

-----------------------------------------------------------------------------
(* C17 *)

\* Entry e of the request has a singular value whose catalog entry is a bare
\* string or a sequence of strings.
IsGlobal(e) ==
  /\ e[2].t = "string"
  /\ CatalogEntry(e[1], e[2].v).t \in {"string", "array"}

SlotNames == Keys(config.slots)

\* C17: in slots mode a catalog entry that is a bare string or a sequence,
\* not a slot mapping, has global effect: whichever slot's resolver is
\* called, the fragment emitted for that variant value is the entry's
\* payload, the same for every slot, and it is part of the output.
C17_GlobalPayload ==
  Returned =>
    /\ (Len(Props) = 1 /\ IsGlobal(Props[1])) =>
         /\ responsiveClasses =
              Str(ClassString(CatalogEntry(Props[1][1], Props[1][2].v)))
         /\ HasFragment(classes.v, responsiveClasses.v)
    /\ \A i \in 1..Len(Props) :
         IsGlobal(Props[i]) =>
           HasFragment(responsiveClasses.v,
                       ClassString(CatalogEntry(Props[i][1], Props[i][2].v)))
    /\ (\A i \in 1..Len(Props) : Props[i][1] = <<"tone">>) =>
         \A k \in 1..Len(SlotNames) :
           responsiveClasses =
             slotCall(config, SlotNames[k], arg).responsiveClasses

C17_Witness ==
  /\ Returned
  /\ slotName = Str(<<"title">>)
  /\ Props = << << <<"tone">>, Str(<<"secondary">>) >> >>
  /\ responsiveClasses = Str(<<"g1", SP, "g2">>)
  /\ Len(SlotNames) = 3

C17_WitnessOtherSlot ==
  /\ Returned
  /\ slotName = Str(<<"body">>)
  /\ Props = << << <<"tone">>, Str(<<"secondary">>) >> >>
  /\ classes = Str(<<"g1", SP, "g2">>)

-----------------------------------------------------------------------------
(* C18 *)

\* The predicate of a slots-mode rule: its entries other than the payloads.
SlotPredicate(rule) == Omit(rule, {<<"class">>, <<"className">>}).v

SlotPredicateMatches(rule) ==
  \A k \in 1..Len(SlotPredicate(rule)) :
    ValueMatches(SlotPredicate(rule)[k][2], ValueOf(SlotPredicate(rule)[k][1]))

\* The rule's payload under key is a slot mapping that has a string for the
\* called slot.
NamesSlotUnder(rule, key) ==
  /\ Get(rule, key).t = "object"
  /\ HasKey(Get(rule, key), slotName.v)
  /\ Get(Get(rule, key), slotName.v).t = "string"

\* The string the rule's mapping under key has for the called slot.
SlotStringUnder(rule, key) == Get(Get(rule, key), slotName.v).v

\* s is one of the compound payloads of the call, and a fragment of the
\* output.
CompoundEmits(s) ==
  /\ compoundClasses.t = "array"
  /\ \E j \in 1..Len(compoundClasses.v) : compoundClasses.v[j] = Str(s)
  /\ HasFragment(classes.v, s)

\* C18: for a compound rule whose class payload is a mapping from slot name
\* to string, the resolver of a slot named in the mapping emits that slot's
\* string if and only if the rule's predicate matches the request; when no
\* rule matches and no variant payload targets the slot, the resolver
\* returns exactly the slot's base.
C18_SlotCompound ==
  Returned =>
    /\ \A i \in 1..Len(RuleList) :
         NamesSlotUnder(RuleList[i], <<"class">>) =>
           (CompoundEmits(SlotStringUnder(RuleList[i], <<"class">>))
              <=> SlotPredicateMatches(RuleList[i]))
    /\ ((\A i \in 1..Len(RuleList) : ~SlotPredicateMatches(RuleList[i]))
          /\ (\A i \in 1..Len(Props) : IsOtherSlots(Props[i]))
          /\ ExtraClassName = Undef) =>
         /\ classes = Str(BaseString)
         /\ NoHook => result = classes

C18_Witness ==
  /\ Returned /\ NoHook
  /\ slotName = Str(<<"title">>)
  /\ Len(RuleList) = 2
  /\ NamesSlotUnder(RuleList[1], <<"class">>)
  /\ NamesSlotUnder(RuleList[2], <<"class">>)
  /\ SlotPredicateMatches(RuleList[1])
  /\ ~SlotPredicateMatches(RuleList[2])
  /\ CompoundEmits(<<"ct">>)
  /\ ~CompoundEmits(<<"ot">>)

C18_WitnessBase ==
  /\ Returned /\ NoHook
  /\ slotName = Str(<<"title">>)
  /\ Len(RuleList) = 2
  /\ Props = << << <<"shadow">>, Str(<<"md">>) >> >>
  /\ \A i \in 1..2 : ~SlotPredicateMatches(RuleList[i])
  /\ result = Str(<<"ft", SP, "mb">>)

-----------------------------------------------------------------------------
(* C19 *)

\* C19: a compound rule whose className payload is a mapping from slot name
\* to string applies per slot: the output of a slot named in the mapping
\* contains that slot's own string exactly when the rule matches, and never
\* the mapping's slot names or another slot's string in its place.
C19_Original ==
  Returned =>
    \A i \in 1..Len(RuleList) :
      NamesSlotUnder(RuleList[i], <<"className">>) =>
        /\ HasFragment(classes.v, SlotStringUnder(RuleList[i], <<"className">>))
             <=> SlotPredicateMatches(RuleList[i])
        /\ \A k \in 1..Len(Get(RuleList[i], <<"className">>).v) :
             ~HasFragment(classes.v, Get(RuleList[i], <<"className">>).v[k][1])

\* The half of C19 that the code keeps: a rule that does not match adds
\* nothing of its className mapping.
C19_AbsentWhenUnmatched ==
  Returned =>
    \A i \in 1..Len(RuleList) :
      (NamesSlotUnder(RuleList[i], <<"className">>)
         /\ ~SlotPredicateMatches(RuleList[i])) =>
        ~HasFragment(classes.v, SlotStringUnder(RuleList[i], <<"className">>))

-----------------------------------------------------------------------------
(* C20 *)

\* The rule's payload under key is a bare string.
IsBareUnder(rule, key) ==
  Get(rule, key).t = "string" /\ Get(rule, key).v # <<>>

\* C20: a matching compound rule whose payload is a bare string, under
\* className or under class, is emitted by every slot's resolver.
C20_Original ==
  Returned =>
    \A i \in 1..Len(RuleList) :
      SlotPredicateMatches(RuleList[i]) =>
        /\ IsBareUnder(RuleList[i], <<"className">>)
             /\ ~NamesSlotUnder(RuleList[i], <<"class">>)
             => CompoundEmits(Get(RuleList[i], <<"className">>).v)
        /\ IsBareUnder(RuleList[i], <<"class">>)
             => CompoundEmits(Get(RuleList[i], <<"class">>).v)

\* C20 for the payloads under className only.
C20_ClassNameString ==
  Returned =>
    \A i \in 1..Len(RuleList) :
      (SlotPredicateMatches(RuleList[i])
         /\ IsBareUnder(RuleList[i], <<"className">>)
         /\ ~NamesSlotUnder(RuleList[i], <<"class">>))
        => CompoundEmits(Get(RuleList[i], <<"className">>).v)

-----------------------------------------------------------------------------
(* C21 *)

\* The rule supplies a value for the called slot under key: a bare string,
\* or a slot mapping that names the slot.
SuppliesUnder(rule, key) ==
  IsBareUnder(rule, key) \/ NamesSlotUnder(rule, key)

ValueUnder(rule, key) ==
  IF IsBareUnder(rule, key) THEN Get(rule, key).v
  ELSE SlotStringUnder(rule, key)

\* The strings of the rule's payload under key, whatever slot they are for.
StringsUnder(rule, key) ==
  CASE Get(rule, key).t = "string" -> {Get(rule, key).v}
    [] Get(rule, key).t = "object" ->
         {Get(rule, key).v[k][2].v : k \in 1..Len(Get(rule, key).v)}
    [] OTHER -> {}

\* C21: when a matching compound rule supplies both a class and a className
\* value for the slot, the slot's output contains both; a slot for which
\* the rule supplies neither contains neither.
C21_Original ==
  Returned =>
    \A i \in 1..Len(RuleList) :
      SlotPredicateMatches(RuleList[i]) =>
        /\ (SuppliesUnder(RuleList[i], <<"class">>)
              /\ SuppliesUnder(RuleList[i], <<"className">>)) =>
             /\ HasFragment(classes.v, ValueUnder(RuleList[i], <<"class">>))
             /\ HasFragment(classes.v, ValueUnder(RuleList[i], <<"className">>))
        /\ (~SuppliesUnder(RuleList[i], <<"class">>)
              /\ ~SuppliesUnder(RuleList[i], <<"className">>)) =>
             \A x \in StringsUnder(RuleList[i], <<"class">>)
                        \cup StringsUnder(RuleList[i], <<"className">>) :
               ~HasFragment(classes.v, x)

\* The half of C21 that the code keeps: a slot for which the matching rule
\* supplies neither value contains none of the rule's strings.
C21_NeitherSupplied ==
  Returned =>
    \A i \in 1..Len(RuleList) :
      (SlotPredicateMatches(RuleList[i])
         /\ ~SuppliesUnder(RuleList[i], <<"class">>)
         /\ ~SuppliesUnder(RuleList[i], <<"className">>)) =>
        \A x \in StringsUnder(RuleList[i], <<"class">>)
                   \cup StringsUnder(RuleList[i], <<"className">>) :
          ~HasFragment(classes.v, x)

-----------------------------------------------------------------------------
(* mapResponsiveValue (index.ts:16-68) *)

Null == [t |-> "null"]

\* JavaScript's typeof: arrays and null are "object".
typeOf(x) == IF x.t \in {"object", "array", "null"} THEN "object" ELSE x.t

\* value != null is false for null and for undefined.
isNullish(x) == x.t \in {"null", "undefined"}


isBreakpointsMap_noArrayCheck(value) ==
  typeOf(value) = "object" /\ ~isNullish(value)

\* Lines 20-23.
isBreakpointsMap(value) ==
  typeOf(value) = "object" /\ ~isNullish(value) /\ ~isArray(value)

\* Lines 16-18.
isSingularValue(value) == ~isBreakpointsMap(value)

Mapper(name) == [t |-> "function", v |-> name]

\* The mappers: the identity, the tag of the value, the value wrapped in a
\* one-element array, and the value wrapped in a mapping under initial.
applyMapper(mapper, value) ==
  CASE mapper.v = "identity" -> value
    [] mapper.v = "typeof"   -> Str(<<typeOf(value)>>)
    [] mapper.v = "wrap"     -> Arr(<<value>>)
    [] mapper.v = "asMap"    -> Obj(<< << <<"initial">>, value >> >>)

\* Lines 63-66: each pair keeps its key and has its value mapped.
mapEntry(entry, mapper) == << entry[1], applyMapper(mapper, entry[2]) >>

\* Lines 57-68.
mapResponsiveValue(value, mapper) ==
  IF isSingularValue(value)
  THEN applyMapper(mapper, value)
  ELSE Obj([i \in 1..Len(entries(value)) |->
             mapEntry(entries(value)[i], mapper)])

\* The arguments the mapper is called with, in call order.
mapperCalls(value, mapper) ==
  IF isSingularValue(value)
  THEN <<value>>
  ELSE [i \in 1..Len(entries(value)) |-> entries(value)[i][2]]

(* Inputs of mapResponsiveValue *)

MapLeaves ==
  { Str(<<"a">>), Bool(TRUE), Arr(<<Str(<<"a">>), Str(<<"b">>)>>),
    Obj(<< << <<"initial">>, Str(<<"a">>) >> >>) }

MapKeyLists ==
  { <<>>, << <<"initial">> >>, << <<"sm">> >>,
    << <<"initial">>, <<"sm">> >>, << <<"sm">>, <<"initial">> >>,
    << <<"initial">>, <<"md">> >>,
    << <<"initial">>, <<"sm">>, <<"md">> >> }

MapsOver(ks) ==
  { Obj([i \in 1..Len(ks) |-> << ks[i], vs[i] >>]) :
      vs \in [1..Len(ks) -> MapLeaves] }

SingularValues ==
  { Str(<<"a">>), Str(<<>>), Str(<<"a", SP, "b">>),
    Bool(TRUE), Bool(FALSE), Undef, Null,
    Arr(<<>>), Arr(<<Str(<<"a">>)>>), Arr(<<Str(<<"a">>), Str(<<"b">>)>>) }

ResponsiveValues ==
  SingularValues \cup UNION { MapsOver(ks) : ks \in MapKeyLists }

Mappers ==
  { Mapper("identity"), Mapper("typeof"), Mapper("wrap"), Mapper("asMap") }

(* Program: one call of mapResponsiveValue at a time *)

MapInit ==
  /\ pc = "idle"
  /\ arg = Undef
  /\ given = Undef
  /\ result = Undef
  /\ hookCalls = <<>>
  /\ config = Undef
  /\ responsiveClasses = Undef
  /\ compoundClasses = Undef
  /\ classes = Undef
  /\ slotFunctions = Undef
  /\ slotName = Undef
  /\ created = Undef

\* mapResponsiveValue(value, mapper) is called.
MapWith(value, mapper) ==
  /\ arg' = value
  /\ given' = mapper
  /\ result' = mapResponsiveValue(value, mapper)
  /\ hookCalls' = mapperCalls(value, mapper)
  /\ pc' = "mapped"
  /\ UNCHANGED <<config, responsiveClasses, compoundClasses, classes,
                 slotFunctions, slotName, created>>

MapCall ==
  /\ pc = "idle"
  /\ \E value \in ResponsiveValues : \E mapper \in Mappers :
       MapWith(value, mapper)

\* The caller is done with the result.
MapReturn ==
  /\ pc = "mapped"
  /\ pc' = "idle"
  /\ arg' = Undef
  /\ given' = Undef
  /\ result' = Undef
  /\ hookCalls' = <<>>
  /\ UNCHANGED <<config, responsiveClasses, compoundClasses, classes,
                 slotFunctions, slotName, created>>

MapNext == MapCall \/ MapReturn

MapSpec == MapInit /\ [][MapNext]_vars

-----------------------------------------------------------------------------
(* C22 *)

Mapped == pc = "mapped"

\* A primitive, a boolean or an ordered sequence.
IsSingularInput(V) ==
  V.t \in {"string", "boolean", "undefined", "null", "array"}

KeySetOf(o) == {o.v[i][1] : i \in 1..Len(o.v)}

C22_WitnessSequence ==
  /\ Mapped
  /\ arg = Arr(<<Str(<<"a">>), Str(<<"b">>)>>)
  /\ given = Mapper("wrap")
  /\ result = Arr(<<arg>>)

-----------------------------------------------------------------------------
(* C23 *)

\* k is a request key that the catalog does not define as a variant.
IsUndefinedKey(k) ==
  k # <<"className">> /\ ~HasKey(config.variants, k)

\* The request without the variant keys that the catalog does not define.
WithoutUndefinedKeys(request) ==
  LET kept(e) == ~IsUndefinedKey(e[1]) IN Obj(SelectSeq(request.v, kept))

HasUndefinedKey ==
  \E i \in 1..Len(Props) : IsUndefinedKey(Props[i][1])

\* C23: variant keys of the request that the catalog does not define, with
\* singular or breakpoint-mapping values, are inert: the output is the one
\* of the request without those keys.
C23_Original ==
  (Returned /\ ~isSlotsConfig(config)) =>
    /\ classes = flatCall(config, WithoutUndefinedKeys(Request)).classes
    /\ result = flatCall(config, WithoutUndefinedKeys(Request)).result

\* The part of C23 that the code keeps: keys that the catalog does not
\* define and that no object inherits are inert.
C23_InertWhenNotInherited ==
  (/\ Returned
   /\ ~isSlotsConfig(config)
   /\ \A i \in 1..Len(Props) : ~HasKey(ObjectPrototype, Props[i][1]))
    => /\ classes = flatCall(config, WithoutUndefinedKeys(Request)).classes
       /\ result = flatCall(config, WithoutUndefinedKeys(Request)).result

\* A request with an undefined key next to a catalog variant has been
\* resolved.
C23_WitnessInert ==
  /\ Returned
  /\ ~isSlotsConfig(config)
  /\ Len(Props) = 2
  /\ Props[1][1] = <<"other">>
  /\ Props[1][2].t = "object"
  /\ Props[2] = << <<"intent">>, Str(<<"primary">>) >>
  /\ responsiveClasses = Str(<<"bg", SP, "tx">>)

-----------------------------------------------------------------------------
(* C24 *)

IsIntegerKey(k) == \E i \in 1..Len(IndexKeys) : k = <<IndexKeys[i]>>

IndexRank(k) == CHOOSE i \in 1..Len(IndexKeys) : k = <<IndexKeys[i]>>

\* The pairs es with those under integer-like keys moved to the front in
\* ascending numeric order; the other pairs keep their order.
OwnKeyOrder(es) ==
  LET idx == {i \in 1..Len(es) : IsIntegerKey(es[i][1])}
      smaller(i) == {j \in idx : IndexRank(es[j][1]) < IndexRank(es[i][1])}
      named(e) == ~IsIntegerKey(e[1])
  IN [n \in 1..Cardinality(idx) |->
        es[CHOOSE i \in idx : Cardinality(smaller(i)) = n - 1]]
       \o SelectSeq(es, named)

\* The pairs es in the order they were written (asWritten) or in own-key
\* order.
Ordered(es, asWritten) == IF asWritten THEN es ELSE OwnKeyOrder(es)

FragmentOf(x) == IF x.t = "string" THEN x.v ELSE <<>>

\* The fragment of a breakpoint mapping of variant N from its pairs es, one
\* after the other, for the resolver that was called (slotName is Undef in
\* flat mode).
MappingFragment(N, es) ==
  SpacedNonEmpty([j \in 1..Len(es) |->
    FragmentOf(breakpointClasses(es[j][1],
                 getVariantValue(config.variants, N, es[j][2], slotName)))])

\* The fragment of one request entry.
EntryFragment(e, asWritten) ==
  IF coerceProp(e[2]).t = "object"
  THEN MappingFragment(e[1], Ordered(e[2].v, asWritten))
  ELSE FragmentOf(propClasses(config.variants, e[1], coerceProp(e[2]),
                              slotName))

\* The variant fragments of the request, one per entry.
VariantFragments(asWritten) ==
  LET es == Ordered(Props, asWritten)
  IN [i \in 1..Len(es) |-> EntryFragment(es[i], asWritten)]

\* The joined output: base, variant fragments, the matching rules' payloads
\* in declared order, the extra className.
MatchingPayloads ==
  LET matching == SelectSeq(RuleList, PredicateMatches)
  IN [k \in 1..Len(matching) |-> Payload(matching[k])]

OutputInOrder(asWritten) ==
  SpacedNonEmpty(
    <<BaseString>>
      \o VariantFragments(asWritten)
      \o MatchingPayloads
      \o <<FragmentOf(ExtraClassName)>>)

\* C24: the order of the output's fragments is base, one fragment per
\* applied variant in the request's key insertion order with the
\* breakpoints of a mapping in that mapping's key insertion order, the
\* matching compound payloads in declared order, the extra className.
C24_Original ==
  (Returned /\ result.t = "string") => classes = Str(OutputInOrder(TRUE))

\* C24, amended: base, one fragment per applied variant, the matching
\* compound payloads in declared order, the extra className; variants and
\* the breakpoints of a mapping come in the order Object.entries lists the
\* keys in: integer-like keys first in ascending numeric order, then the
\* other keys in insertion order.
C24_OwnKeyOrder ==
  (Returned /\ result.t = "string") => classes = Str(OutputInOrder(FALSE))

\* The regression case: {intent: {initial: primary, md: secondary}} on a
\* two-class base.
C24_Witness ==
  /\ Returned
  /\ NoHook
  /\ config.base = <<"rd", SP, "px">>
  /\ Props = << << <<"intent">>,
                   Obj(<< << <<"initial">>, Str(<<"primary">>) >>,
                          << <<"md">>, Str(<<"secondary">>) >> >>) >> >>
  /\ compoundClasses = Arr(<<>>)
  /\ result = Str(<<"rd", SP, "px", SP, "bg", SP, "tx", SP,
                    "md", ":", "gr", SP, "md", ":", "dk">>)

\* A mapping written with an integer-like key after a named one.
C24_WitnessIntegerKey ==
  /\ Returned
  /\ Len(Props) = 2
  /\ Props[1][1] = <<"disabled">>
  /\ Props[2][1] = <<"intent">>
  /\ Props[2][2].t = "object"
  /\ HasKey(Props[2][2], <<"2">>)
  /\ IsPrefix(<<"na", SP, "op", SP, "2", ":", "gr">>, responsiveClasses.v)

-----------------------------------------------------------------------------
(* C25 *)

\* The pieces of the base: the flat base or a string slot base as it is,
\* the strings of a sequence slot base one by one.
BasePieces ==
  IF ~isSlotsConfig(config) THEN <<config.base>>
  ELSE IF SlotBase.t = "string" THEN <<SlotBase.v>>
  ELSE Strings(SlotBase)

\* The pieces of one request entry: one per breakpoint of a mapping, one
\* for a singular value; a piece that resolves to nothing is empty.
EntryPieces(e) ==
  IF coerceProp(e[2]).t = "object"
  THEN [j \in 1..Len(e[2].v) |->
          FragmentOf(breakpointClasses(OwnKeyOrder(e[2].v)[j][1],
            getVariantValue(config.variants, e[1],
                            OwnKeyOrder(e[2].v)[j][2], slotName)))]
  ELSE <<FragmentOf(propClasses(config.variants, e[1], coerceProp(e[2]),
                                slotName))>>

\* The pieces of one compound payload: a string as it is; of a mapping,
\* what is emitted for it, its keys (C19).
PayloadPieces(x) ==
  IF x.t = "object"
  THEN Keys(Obj(SelectSeq(x.v, LAMBDA e : Truthy(e[2]))))
  ELSE <<FragmentOf(x)>>

CompoundPieces ==
  IF compoundClasses.t = "array"
  THEN Flatten([k \in 1..Len(compoundClasses.v) |->
                  PayloadPieces(compoundClasses.v[k])])
  ELSE <<>>

\* Every piece of the call: base, variants, compound payloads, className.
Pieces ==
  BasePieces
    \o Flatten([i \in 1..Len(Props) |-> EntryPieces(OwnKeyOrder(Props)[i])])
    \o CompoundPieces
    \o <<FragmentOf(ExtraClassName)>>

StartsWithSpace(s) == s # <<>> /\ s[1] = SP

EndsWithSpace(s) == s # <<>> /\ s[Len(s)] = SP

HasDoubledSpace(s) == \E i \in 1..(Len(s) - 1) : s[i] = SP /\ s[i + 1] = SP

\* The piece brings no space of its own to its ends or doubled inside.
IsClean(s) == ~StartsWithSpace(s) /\ ~EndsWithSpace(s) /\ ~HasDoubledSpace(s)

\* The strings of a class value: a string, the elements of a sequence, the
\* strings of the values of a slot mapping.
ValueStrings(x) ==
  CASE x.t = "string" -> {x.v}
    [] x.t = "array"  -> {x.v[i].v : i \in 1..Len(x.v)}
    [] x.t = "object" ->
         UNION { IF x.v[k][2].t = "array"
                 THEN {x.v[k][2].v[i].v : i \in 1..Len(x.v[k][2].v)}
                 ELSE {FragmentOf(x.v[k][2])} : k \in 1..Len(x.v) }
    [] OTHER -> {}

\* Every string the catalog was written with.
CatalogStrings ==
  UNION { UNION { ValueStrings(config.variants.v[n][2].v[t][2]) :
                    t \in 1..Len(config.variants.v[n][2].v) } :
            n \in 1..Len(config.variants.v) }

\* No string of the config or of the request brings a space of its own to
\* its ends or doubled inside.
SourcesClean ==
  /\ \A k \in 1..Len(BasePieces) : IsClean(BasePieces[k])
  /\ \A x \in CatalogStrings : IsClean(x)
  /\ \A k \in 1..Len(CompoundPieces) : IsClean(CompoundPieces[k])
  /\ IsClean(FragmentOf(ExtraClassName))

\* C25: in flat mode and in each slot resolver the string passed to the
\* hook is the non-empty fragments joined by exactly one space: a fragment
\* that resolves to nothing is dropped, an empty base yields no leading
\* space, and no joining step yields a doubled or trailing space.
C25_Original ==
  (Returned /\ result.t = "string") =>
    /\ classes = Str(SpacedNonEmpty(Pieces))
    /\ SourcesClean => IsClean(classes.v)

\* C25, amended: the string passed to the hook is the non-empty fragments
\* (base, the payload of each applied variant or breakpoint, the matching
\* compound payloads, className) joined by exactly one space, a fragment
\* that resolves to nothing being dropped; a payload given as a sequence is
\* one fragment, all its elements joined by one space, the empty ones
\* included, so only such an element or a fragment's own spaces put a
\* leading, doubled or trailing space in the output.
C25_JoinDiscipline ==
  (Returned /\ result.t = "string") =>
    /\ classes = Str(SpacedNonEmpty(Pieces))
    /\ (\A k \in 1..Len(Pieces) : IsClean(Pieces[k])) => IsClean(classes.v)

\* An empty flat base, an unknown token, an applied breakpoint, an applied
\* variant and no className.
C25_Witness ==
  /\ Returned
  /\ ~isSlotsConfig(config)
  /\ config.base = <<>>
  /\ Len(Props) = 2
  /\ Props[1][2].t = "object"
  /\ Get(Props[1][2], <<"initial">>) = Str(<<"nope">>)
  /\ ExtraClassName = Undef
  /\ compoundClasses = Arr(<<>>)
  /\ classes = Str(<<"xl", ":", "bg", SP, "xl", ":", "tx", SP, "na", SP, "op">>)

\* A slot with an empty base.
C25_WitnessSlot ==
  /\ Returned
  /\ isSlotsConfig(config)
  /\ BaseString = <<>>
  /\ classes.t = "string"
  /\ classes.v # <<>>
  /\ IsClean(classes.v)

-----------------------------------------------------------------------------
(* C26 *)

\* The engine constructed afresh from what createRcv and customRcv were
\* given.
FreshConfig == customRcvConfig(created.onComplete, given)

\* What the call that has returned returns when it is the only call made
\* on a fresh engine.
FreshResult ==
  IF isSlotsConfig(FreshConfig)
  THEN slotCall(FreshConfig, slotName.v, arg).result
  ELSE flatCall(FreshConfig, arg).result

C26_WitnessFlat ==
  /\ Returned
  /\ ~isSlotsConfig(config)
  /\ config.compoundVariants # Undef
  /\ compoundClasses = Arr(<<Str(<<"j2">>)>>)
  /\ result = FreshResult

-----------------------------------------------------------------------------
(* C27 *)

\* The labels createRcv was given (none when it was given no list).
Labels ==
  IF created.breakpoints = Undef THEN {}
  ELSE {created.breakpoints.v[i].v : i \in 1..Len(created.breakpoints.v)}

\* What rcv(given) returns for the call that has returned.
RcvResult ==
  IF isSlotsConfig(given)
  THEN slotCall(given, slotName.v, arg).result
  ELSE flatCall(given, arg).result

\* The breakpoint k of a mapping is neither initial nor one of the labels.
IsUnlistedKey(k) == k # <<"initial">> /\ k \notin Labels

\* C27: with no bound hook, whatever label list createRcv was given, the
\* resolvers of createRcv(L)(config) return what those of rcv(config)
\* return, and a mapping key of the request that is not in L (and is not
\* initial) is still used as a class prefix.
C27_LabelsIgnored ==
  (Returned /\ created.onComplete = Undef) =>
    /\ result = RcvResult
    /\ \A i \in 1..Len(Props) :
         Props[i][2].t = "object" =>
           \A j \in 1..Len(Props[i][2].v) :
             IsUnlistedKey(Props[i][2].v[j][1]) =>
               \A k \in 1..Len(BreakpointTokens(Props[i][2].v[j][1],
                          CatalogPayload(Props[i][1], TokenOf(Props[i][2].v[j][2])))) :
                 \E n \in 1..Len(Tokens(classes.v)) :
                   Tokens(classes.v)[n] =
                     BreakpointTokens(Props[i][2].v[j][1],
                       CatalogPayload(Props[i][1], TokenOf(Props[i][2].v[j][2])))[k]

\* createRcv was given the labels sm and md and a config with a hook of its
\* own; the request maps the key xl, which is not a label.
C27_Witness ==
  /\ Returned
  /\ created.onComplete = Undef
  /\ Labels = { <<"sm">>, <<"md">> }
  /\ given.onComplete = Hook("reverse")
  /\ Len(Props) = 2
  /\ HasKey(Props[1][2], <<"xl">>)
  /\ classes = Str(<<"xl", ":", "bg", SP, "xl", ":", "tx", SP, "na", SP, "op">>)
  /\ result = RcvResult

-----------------------------------------------------------------------------
(* C28 *)

\* The rule's predicate names a variant for which the request carries a
\* breakpoint mapping.
MeetsMapping(rule) ==
  \E k \in 1..Len(Predicate(rule)) :
    ValueOf(Predicate(rule)[k][1]).t = "object"

\* The rule's predicate names a variant for which the request carries a
\* breakpoint mapping that is not the very object the rule expects.
MeetsOtherMapping(rule) ==
  \E k \in 1..Len(Predicate(rule)) :
    /\ ValueOf(Predicate(rule)[k][1]).t = "object"
    /\ ~(/\ "id" \in DOMAIN ValueOf(Predicate(rule)[k][1])
         /\ "id" \in DOMAIN Predicate(rule)[k][2]
         /\ ValueOf(Predicate(rule)[k][1]).id = Predicate(rule)[k][2].id)

\* C28: a compound rule never matches a request whose value for one of the
\* rule's predicate variants is a breakpoint mapping, whatever the
\* mapping's breakpoint values are.
C28_Original ==
  Returned =>
    \A i \in 1..Len(RuleList) : MeetsMapping(RuleList[i]) => ~Emitted(RuleList[i])

\* C28, amended: a compound rule does not match a request whose value for
\* one of the rule's predicate variants is a breakpoint mapping, even when
\* the mapping's initial (or every) breakpoint value equals the expected
\* value or the mapping has the content of an expected mapping; the one
\* mapping a rule matches is the very object it was written with.
C28_MappingNotMatched ==
  Returned =>
    \A i \in 1..Len(RuleList) :
      /\ MeetsOtherMapping(RuleList[i]) => ~Emitted(RuleList[i])
      /\ (/\ Len(Predicate(RuleList[i])) = 1
          /\ MeetsMapping(RuleList[i])
          /\ ~MeetsOtherMapping(RuleList[i])) => Emitted(RuleList[i])

\* The rule expects false for disabled and the request maps disabled to
\* false at initial.
C28_Witness ==
  /\ Returned
  /\ ~isSlotsConfig(config)
  /\ Len(RuleList) = 1
  /\ Predicate(RuleList[1]) = << << <<"disabled">>, Bool(FALSE) >> >>
  /\ ValueOf(<<"disabled">>).t = "object"
  /\ Get(ValueOf(<<"disabled">>), <<"initial">>) = Bool(FALSE)
  /\ responsiveClasses = Str(<<"ptr", SP, "md", ":", "na", SP, "md", ":", "op">>)
  /\ compoundClasses = Arr(<<>>)

\* The rule expects a mapping and the request carries a mapping with the
\* same content.
C28_WitnessCopy ==
  /\ Returned
  /\ ~isSlotsConfig(config)
  /\ Len(RuleList) = 1
  /\ Predicate(RuleList[1])[1][2].t = "object"
  /\ ValueOf(<<"intent">>).t = "object"
  /\ ValueOf(<<"intent">>).v = Predicate(RuleList[1])[1][2].v
  /\ compoundClasses = Arr(<<>>)

-----------------------------------------------------------------------------
(* C29 *)

\* The entry the rule's class mapping has for the called slot (Undef when
\* the rule has no class mapping or the mapping has no such entry).
ClassEntry(rule) ==
  IF Get(rule, <<"class">>).t = "object"
  THEN Get(Get(rule, <<"class">>), slotName.v)
  ELSE Undef

\* The rule's class payload, if any, is a slot mapping.
HasClassMapping(rule) == Get(rule, <<"class">>).t \in {"object", "undefined"}

\* An entry that carries no class: none, the empty string, or a sequence
\* whose strings join to the empty string.
IsEmptyEntry(e) ==
  e.t = "undefined" \/ normalizeClassValue(e) = Str(<<>>)

\* An entry the code's test at line 279 lets through to the className
\* branch: none, or the empty string.
IsFalsyEntry(e) == ~Truthy(e)

\* What C29 says of rule number i, for the entries that satisfy empty.
FallsBack(i, empty(_)) ==
  (SlotPredicateMatches(RuleList[i])
     /\ HasClassMapping(RuleList[i])
     /\ empty(ClassEntry(RuleList[i]))) =>
    /\ IsBareUnder(RuleList[i], <<"className">>) =>
         CompoundEmits(Get(RuleList[i], <<"className">>).v)
    /\ Get(RuleList[i], <<"className">>).t = "undefined" =>
         \A x \in StringsUnder(RuleList[i], <<"class">>) :
           x # <<>> => ~HasFragment(classes.v, x)

\* C29: in slots mode, when a compound rule matches and its class mapping
\* has no non-empty entry for the calling slot, the slot's resolver emits
\* the rule's className value if the rule has one and nothing for that rule
\* otherwise.
C29_Original ==
  Returned => \A i \in 1..Len(RuleList) : FallsBack(i, IsEmptyEntry)

\* The part of C29 that the code keeps: the className value is emitted when
\* the slot's entry is missing or the empty string.
C29_FalsyEntry ==
  Returned => \A i \in 1..Len(RuleList) : FallsBack(i, IsFalsyEntry)

\* A matching rule with an empty sequence for the slot and a className: the
\* slot's output is its base alone.
C29_WitnessDropped ==
  /\ Returned /\ NoHook
  /\ slotName = Str(<<"body">>)
  /\ \E i \in 1..Len(RuleList) :
       /\ SlotPredicateMatches(RuleList[i])
       /\ ClassEntry(RuleList[i]) = Arr(<<>>)
       /\ IsBareUnder(RuleList[i], <<"className">>)
       /\ ~HasFragment(classes.v, Get(RuleList[i], <<"className">>).v)

\* A matching rule with no entry for the slot and a className: the className
\* is emitted.
C29_WitnessFallback ==
  /\ Returned /\ NoHook
  /\ slotName = Str(<<"title">>)
  /\ \E i \in 1..Len(RuleList) :
       /\ SlotPredicateMatches(RuleList[i])
       /\ Get(RuleList[i], <<"class">>).t = "object"
       /\ ClassEntry(RuleList[i]) = Undef
       /\ CompoundEmits(<<"bn">>)

-----------------------------------------------------------------------------
(* C30 *)

\* The rule has a payload and no variant/value pairs.
HasEmptyPredicate(rule) ==
  /\ Predicate(rule) = <<>>
  /\ Get(rule, <<"className">>).t = "string"
  /\ Payload(rule) # <<>>

\* C30: a compound rule with an empty predicate (a payload and no
\* variant/value pairs) matches every request, including the empty request
\* and a call with no argument, so its payload is part of every output of
\* the resolver.
C30_EmptyPredicate ==
  Returned =>
    \A i \in 1..Len(RuleList) :
      HasEmptyPredicate(RuleList[i]) =>
        /\ Emitted(RuleList[i])
        /\ HasFragment(classes.v, Payload(RuleList[i]))
        /\ NoHook => HasFragment(result.v, Payload(RuleList[i]))

\* A call with no argument, against a rule with an empty predicate.
C30_Witness ==
  /\ Returned /\ NoHook
  /\ arg = Undef
  /\ \E i \in 1..Len(RuleList) : HasEmptyPredicate(RuleList[i])
  /\ HasFragment(result.v, <<"g4">>)

\* The empty request.
C30_WitnessEmptyRequest ==
  /\ Returned /\ NoHook
  /\ arg = Obj(<<>>)
  /\ \E i \in 1..Len(RuleList) : HasEmptyPredicate(RuleList[i])
  /\ HasFragment(result.v, <<"g4">>)

\* A request that names a variant outside the catalog and an unknown token.
C30_WitnessAnyRequest ==
  /\ Returned /\ NoHook
  /\ Len(Props) = MaxProps
  /\ \E i \in 1..Len(RuleList) : HasEmptyPredicate(RuleList[i])
  /\ HasFragment(result.v, <<"g4">>)

=============================================================================
